---- MODULE Spec2Model ----
(***************************************************************************)
(* The licensing and seller-wallet ledger of the NEXUS portal server       *)
(* (src/portal_server.py) and the client registry, commission engine,      *)
(* subscription billing and scan intake of the NEXUS HQ server             *)
(* (src/hq_server.py).                                                     *)
(*                                                                         *)
(* The tables of portal.db and nexus_hq.db are the state.  Every request handler opens its *)
(* own sqlite3 connection.  Python's sqlite3 module runs a SELECT outside  *)
(* any transaction and opens one only before an INSERT or UPDATE, so each  *)
(* SELECT of a handler is a step of its own and the writes up to the       *)
(* commit are one step.  The Flask server answers each request on its own  *)
(* thread, so the steps of different requests interleave.                  *)
(*                                                                         *)
(* Money is REAL in the tables; here an amount is an integer number of     *)
(* cents; the monthly fees of the tiers and the amounts of invoices are    *)
(* whole dollars.                                                          *)
(***************************************************************************)
EXTENDS Integers, Sequences, FiniteSets

\* ------------------------------------------------------------- bounds
\* Number of requests that can be in flight at once.
NumProcs == 2
\* Validation requests received over a run; each may come from a new machine.
MaxValidateCalls == 4
\* Largest amount of a credit or withdrawal request (the smallest is -1).
MaxAmount == 2
\* Wallet requests received over a run.
MaxWalletCalls == 3
\* Largest sale value of the commission range, in cents.
MaxSaleValue == 200
\* Sales reported over a run.
MaxSaleCalls == 2
\* Calls of get_client_by_api_key over a run.
MaxAuthCalls == 3
\* Billing periods that pass over a run.
MaxPeriods == 1
\* Invoicing calls (create_invoice, generate_monthly_invoices) over a run.
MaxBillingCalls == 2
\* Scans in one batch request.
MaxBatch == 2
\* Batch requests received.
MaxScanCalls == 2

\* ---------------------------------------------------- program constants
\* licenses.max_activations INTEGER DEFAULT 3
DefaultMaxActivations == 3
\* period_end = period_start + timedelta(days=30)
PeriodDays == 30

Procs == 1..NumProcs
Machines == 1..MaxValidateCalls
Emails == {"a@shop"}
Amounts == (-1)..MaxAmount

VARIABLES
    users,                \* table users: row id -> [email, station_api_key]
    licenses,             \* table licenses: row id -> [license_key, user_id, ...]
    clients,              \* table clients (activations): row id -> row
    wallets,              \* table wallets: row id -> row
    wallet_transactions,  \* table wallet_transactions: row id -> row
    hq_clients,           \* nexus_hq.db, table clients: client id -> row
    sales,                \* nexus_hq.db, table sales: row number -> row
    invoices,             \* nexus_hq.db, table subscription_invoices
    scans,                \* nexus_hq.db, table scans: row id -> row
    now,                  \* the HQ server's clock, in days
    pc,                   \* per request thread: the statement it is at
    loc,                  \* per request thread: the handler's local variables
    response,             \* the response the server sent last
    ncalls                \* requests received so far

portal_tables == <<users, licenses, clients, wallets, wallet_transactions>>
hq_tables == <<hq_clients, sales>>
tables == <<portal_tables, hq_tables>>
\* The rest of nexus_hq.db, and the clock.
hq_rest == <<invoices, scans, now>>
vars == <<users, licenses, clients, wallets, wallet_transactions,
          hq_clients, sales, invoices, scans, now, pc, loc, response, ncalls>>

\* ------------------------------------------------------------ helpers
Rows(t) == DOMAIN t

\* NULL in a column that holds a day: no day of the clock is 0.
Null == 0

\* The locals of a handler: request.license (license_id, max_activations),
\* the request's machine_id and amount, and what the SELECTs returned; of the
\* HQ server, the route or function called, its api_key, client_id and
\* sale_value, and the commission_rate read; of the billing functions, the
\* tier to invoice, the clients_due still to be invoiced, the number of
\* invoices_created, and the sums get_subscription_revenue has read; of
\* the batch route, the scans of the request and the one its loop is at;
\* of update_payout_settings, the payout_email and payout_method sent; of
\* generate_monthly_invoices, the instant today of its scan.
NoLoc == [license_id |-> 0, max_activations |-> 0, machine_id |-> 0,
          activations |-> 0, existing |-> 0,
          amount |-> 0, user_id |-> 0, wallet_id |-> 0, balance |-> 0,
          total_earned |-> 0,
          handler |-> "none", api_key |-> 0, client_id |-> 0,
          sale_value |-> 0, commission_rate |-> 0,
          tier |-> "", due |-> <<>>, created |-> 0,
          mrr |-> 0, total_collected |-> 0, pending_invoices |-> 0,
          pending_amount |-> 0,
          batch |-> <<>>, next |-> 0,
          payout_email |-> "", payout_method |-> "", today |-> 0]

\* A response: its kind (the error, "valid" of a validation, "success" of a
\* wallet request), with the number it carries (activations_used, new_balance)
\* and the client_id of a validation.
Response(kind, n) == [kind |-> kind, n |-> n, client_id |-> 0]
ValidResponse(client_id, activations_used) ==
    [kind |-> "valid", n |-> activations_used, client_id |-> client_id]

\* --------------------------------------------------------------- init
\* init_db creates the tables empty; no request is being served.
Init ==
    /\ users = <<>>
    /\ licenses = <<>>
    /\ clients = <<>>
    /\ wallets = <<>>
    /\ wallet_transactions = <<>>
    /\ hq_clients = <<>>
    /\ sales = <<>>
    /\ invoices = <<>>
    /\ scans = <<>>
    /\ now = 1
    /\ pc = [p \in Procs |-> "idle"]
    /\ loc = [p \in Procs |-> NoLoc]
    /\ response = Response("none", 0)
    /\ ncalls = 0

\* The server gives an arriving request to a thread of its own; threads are
\* interchangeable, so it is the lowest-numbered free one.
Free(p) == pc[p] = "idle" /\ \A q \in Procs : q < p => pc[q] # "idle"

\* A request ends: the response is sent and the thread's locals are gone.
Respond(p, r) ==
    /\ pc' = [pc EXCEPT ![p] = "idle"]
    /\ loc' = [loc EXCEPT ![p] = NoLoc]
    /\ response' = r

\* ----------------------------------------------------------- register
\* The key generators draw from uuid4: the key of a new row is one that no
\* row holds, here the number of the row.
generate_station_api_key == Len(users) + 1
generate_license_key == Len(licenses) + 1

\* Mutant of EmailTaken: users.email without UNIQUE.
EmailTaken_NoConstraint(email) == FALSE

\* users.email is UNIQUE: the INSERT raises IntegrityError on a known email.
EmailTaken(email) == \E u \in Rows(users) : users[u].email = email

\* A row of wallets as its INSERT makes it: balance, pending_balance,
\* total_earned and total_withdrawn DEFAULT 0.00, payout_method DEFAULT
\* 'paypal'; a payout_email that the INSERT does not name is NULL, here "".
NewWallet(user_id, payout_email) ==
    [user_id |-> user_id, balance |-> 0, pending_balance |-> 0,
     total_earned |-> 0, total_withdrawn |-> 0,
     payout_email |-> payout_email, payout_method |-> "paypal"]

\* POST /api/auth/register: one transaction inserts the user, its license and
\* its wallet; an IntegrityError leaves through the except branch without a
\* commit, and closing the connection rolls back.
register(email) ==
    /\ IF EmailTaken(email)
       THEN UNCHANGED <<users, licenses, wallets>>
       ELSE LET user_id == Len(users) + 1 IN
            /\ users' = Append(users, [email |-> email,
                                       station_api_key |-> generate_station_api_key])
            /\ licenses' = Append(licenses,
                 [license_key |-> generate_license_key, user_id |-> user_id,
                  expired |-> FALSE, is_active |-> TRUE,
                  max_activations |-> DefaultMaxActivations])
            /\ wallets' = Append(wallets, NewWallet(user_id, email))
    /\ UNCHANGED <<clients, wallet_transactions, hq_tables,
                   pc, loc, response, ncalls>>
    /\ UNCHANGED hq_rest

\* ---------------------------------------------------- require_license
\* The license keys a request may carry: those issued, and 0, which none is.
Keys == 0..Len(licenses)

\* SELECT * FROM licenses WHERE license_key = ? AND is_active = 1: the row
\* id, or 0 when there is none.
ActiveLicense(key) ==
    LET found == {l \in Rows(licenses) :
                    licenses[l].license_key = key /\ licenses[l].is_active}
    IN IF found = {} THEN 0 ELSE CHOOSE l \in found : \A m \in found : l <= m

\* Mutant of LicenseCheck: the expiry of the license not looked at.
LicenseCheck_NoExpiry(key) ==
    IF ActiveLicense(key) = 0 THEN "InvalidLicense" ELSE "ok"

\* The decorator's answer for a key: "ok" when the handler is called.
LicenseCheck(key) ==
    IF ActiveLicense(key) = 0 THEN "InvalidLicense"
    ELSE IF licenses[ActiveLicense(key)].expired THEN "Expired"
    ELSE "ok"

\* request.license = dict(license)
RequestLicense(key) ==
    [NoLoc EXCEPT !.license_id = ActiveLicense(key),
                  !.max_activations = licenses[ActiveLicense(key)].max_activations]

\* --------------------------------------------------- validate_license
\* SELECT COUNT(*) FROM clients WHERE license_id = ?
ActivationCount(license_id) ==
    Cardinality({c \in Rows(clients) : clients[c].license_id = license_id})

\* SELECT * FROM clients WHERE license_id = ? AND machine_id = ?: the id of
\* the row, or 0 when there is none.
ExistingClient(license_id, machine_id) ==
    LET found == {c \in Rows(clients) :
                    /\ clients[c].license_id = license_id
                    /\ clients[c].machine_id = machine_id}
    IN IF found = {} THEN 0 ELSE CHOOSE c \in found : \A d \in found : c <= d

\* Mutants of LimitReached: the limit compared with > for >=, and the limit
\* applied to a machine that has a row.
LimitReached_OffByOne(existing, activations, max_activations) ==
    existing = 0 /\ activations > max_activations
LimitReached_IgnoresExisting(existing, activations, max_activations) ==
    activations >= max_activations

\* if not existing and activations >= max_activations
LimitReached(existing, activations, max_activations) ==
    existing = 0 /\ activations >= max_activations

\* Mutant of ClientPairTaken: clients without UNIQUE(license_id, machine_id).
ClientPairTaken_NoConstraint(license_id, machine_id) == FALSE

\* UNIQUE(license_id, machine_id): the INSERT raises IntegrityError when the
\* pair has a row.
ClientPairTaken(license_id, machine_id) ==
    \E c \in Rows(clients) : /\ clients[c].license_id = license_id
                             /\ clients[c].machine_id = machine_id

\* POST /api/auth/validate arrives with a license key and a machine id.  The
\* decorator looks the license up and answers 401 itself or calls the
\* handler, which reads the request and opens its connection.
validate_license(p, key, machine_id) ==
    /\ Free(p)
    /\ ncalls < MaxValidateCalls
    /\ ncalls' = ncalls + 1
    /\ IF LicenseCheck(key) # "ok"
       THEN Respond(p, Response(LicenseCheck(key), 0))
       ELSE /\ pc' = [pc EXCEPT ![p] = "validate_count"]
            /\ loc' = [loc EXCEPT ![p] =
                         [RequestLicense(key) EXCEPT !.machine_id = machine_id]]
            /\ UNCHANGED response
    /\ UNCHANGED tables
    /\ UNCHANGED hq_rest

\* activations = SELECT COUNT(*) ...
validate_count(p) ==
    /\ pc[p] = "validate_count"
    /\ loc' = [loc EXCEPT ![p].activations = ActivationCount(loc[p].license_id)]
    /\ pc' = [pc EXCEPT ![p] = "validate_existing"]
    /\ UNCHANGED <<tables, response, ncalls>>
    /\ UNCHANGED hq_rest

\* existing = SELECT * FROM clients WHERE license_id = ? AND machine_id = ?
validate_existing(p) ==
    /\ pc[p] = "validate_existing"
    /\ loc' = [loc EXCEPT ![p].existing =
                 ExistingClient(loc[p].license_id, loc[p].machine_id)]
    /\ pc' = [pc EXCEPT ![p] = "validate_write"]
    /\ UNCHANGED <<tables, response, ncalls>>
    /\ UNCHANGED hq_rest

\* The limit check on the values read, then the UPDATE of the existing row
\* or the INSERT of a new one, and the commit.  An IntegrityError of the
\* INSERT is not caught: the request ends as a server error, nothing written.
\* Both statements set last_seen = CURRENT_TIMESTAMP; of a row's times the
\* model keeps whether last_seen is still its first_seen or a later time
\* (machine_name, ip_address and version are written along with it).
validate_write(p) ==
    /\ pc[p] = "validate_write"
    /\ LET l == loc[p].license_id
           existing == loc[p].existing
           activations == loc[p].activations
       IN IF LimitReached(existing, activations, loc[p].max_activations)
          THEN /\ Respond(p, Response("ActivationLimitReached", 0))
               /\ UNCHANGED clients
          ELSE IF existing # 0
          THEN /\ clients' = [clients EXCEPT ![existing].last_seen = "later"]
               /\ Respond(p, ValidResponse(existing, activations))
          ELSE IF ClientPairTaken(l, loc[p].machine_id)
          THEN /\ Respond(p, Response("IntegrityError", 0))
               /\ UNCHANGED clients
          ELSE /\ clients' = Append(clients,
                     [license_id |-> l, machine_id |-> loc[p].machine_id,
                      last_seen |-> "first_seen"])
               /\ Respond(p, ValidResponse(Len(clients) + 1, activations + 1))
    /\ UNCHANGED <<users, licenses, wallets, wallet_transactions, hq_tables,
                   ncalls>>
    /\ UNCHANGED hq_rest

AllIdle == \A q \in Procs : pc[q] = "idle"

\* A machine id is an opaque fingerprint that the handler only compares for
\* equality: a request comes from a machine that a row or a request in flight
\* names, or from the lowest-numbered machine that none names.
SeenMachines ==
    {clients[c].machine_id : c \in Rows(clients)}
      \cup {loc[q].machine_id : q \in {r \in Procs : pc[r] # "idle"}}
CallingMachines ==
    {m \in Machines : m \in SeenMachines
                       \/ \A k \in Machines : k < m => k \in SeenMachines}

\* Validations of licenses, requests overlapping.
LicenseNext ==
    \/ \E e \in Emails : register(e)
    \/ \E p \in Procs :
         \/ \E key \in Keys, m \in CallingMachines : validate_license(p, key, m)
         \/ validate_count(p)
         \/ validate_existing(p)
         \/ validate_write(p)

LicenseSpec == Init /\ [][LicenseNext]_vars

\* Validations of licenses, one request at a time.
LicenseSeqNext ==
    \/ \E e \in Emails : register(e)
    \/ \E p \in Procs :
         \/ \E key \in Keys, m \in CallingMachines : AllIdle /\ validate_license(p, key, m)
         \/ validate_count(p)
         \/ validate_existing(p)
         \/ validate_write(p)

LicenseSeqSpec == Init /\ [][LicenseSeqNext]_vars

\* ------------------------------------------------ licenses, operator
\* No handler writes licenses.is_active or licenses.expires_at: a license is
\* revoked or given an expiry by the operator, in portal.db itself.
\* UPDATE licenses SET is_active = 0 WHERE id = ?
revoke_license(l) ==
    /\ licenses[l].is_active
    /\ licenses' = [licenses EXCEPT ![l].is_active = FALSE]
    /\ UNCHANGED <<users, clients, wallets, wallet_transactions, hq_tables,
                   pc, loc, response, ncalls>>
    /\ UNCHANGED hq_rest

\* The expires_at the operator has set passes: from now on
\* datetime.fromisoformat(license['expires_at']) < datetime.now().
expire_license(l) ==
    /\ ~licenses[l].expired
    /\ licenses' = [licenses EXCEPT ![l].expired = TRUE]
    /\ UNCHANGED <<users, clients, wallets, wallet_transactions, hq_tables,
                   pc, loc, response, ncalls>>
    /\ UNCHANGED hq_rest

\* Validations of licenses that the operator revokes and that expire, one
\* request at a time; the operator acts between the steps of a request too.
LicenseAdminNext ==
    \/ \E e \in Emails : register(e)
    \/ \E l \in Rows(licenses) : revoke_license(l)
    \/ \E l \in Rows(licenses) : expire_license(l)
    \/ \E p \in Procs :
         \/ \E key \in Keys, m \in CallingMachines : AllIdle /\ validate_license(p, key, m)
         \/ validate_count(p)
         \/ validate_existing(p)
         \/ validate_write(p)

LicenseAdminSpec == Init /\ [][LicenseAdminNext]_vars

\* ------------------------------------------------------------- wallets
\* SELECT * FROM wallets WHERE user_id = ?: the row id, or 0 when there is
\* none.
WalletOf(user_id) ==
    LET found == {w \in Rows(wallets) : wallets[w].user_id = user_id}
    IN IF found = {} THEN 0 ELSE CHOOSE w \in found : \A x \in found : w <= x

\* SELECT id FROM users WHERE station_api_key = ?: the row id, or 0.
UserOfStationKey(station_api_key) ==
    LET found == {u \in Rows(users) : users[u].station_api_key = station_api_key}
    IN IF found = {} THEN 0 ELSE CHOOSE u \in found : \A x \in found : u <= x

\* The station keys a credit request may carry: those issued, and 0.
StationKeys == 0..Len(users)

\* Mutant of InvalidAmount: an amount of zero let through.
InvalidAmount_ZeroAllowed(amount) == amount < 0

\* if amount <= 0
InvalidAmount(amount) == amount <= 0

\* Mutants of InsufficientBalance: the balance check left out, and the
\* balance compared one too high.
InsufficientBalance_NoCheck(wallet_id, amount) == wallet_id = 0
InsufficientBalance_OffByOne(wallet_id, amount) ==
    wallet_id = 0 \/ wallets[wallet_id].balance + 1 < amount

\* if not wallet or wallet['balance'] < amount
InsufficientBalance(wallet_id, amount) ==
    wallet_id = 0 \/ wallets[wallet_id].balance < amount

\* -------------------------------------------------- request_withdrawal
\* The row the handler inserts into wallet_transactions.
WithdrawalTransaction(wallet_id, amount) ==
    [wallet_id |-> wallet_id, type |-> "withdrawal", amount |-> 0 - amount,
     status |-> "pending"]

\* new_balance = wallet['balance'] - amount;
\* UPDATE wallets SET balance = ?, updated_at = CURRENT_TIMESTAMP WHERE user_id = ?
WithdrawalUpdate(row, balance, amount) ==
    [row EXCEPT !.balance = balance - amount]

\* POST /api/wallet/withdraw arrives with a license key and an amount.  The
\* decorator looks the license up and answers 401 itself or calls the
\* handler, which rejects an amount <= 0 before it opens its connection.
request_withdrawal(p, key, amount) ==
    /\ Free(p)
    /\ ncalls < MaxWalletCalls
    /\ ncalls' = ncalls + 1
    /\ IF LicenseCheck(key) # "ok"
       THEN Respond(p, Response(LicenseCheck(key), 0))
       ELSE IF InvalidAmount(amount)
       THEN Respond(p, Response("InvalidAmount", 0))
       ELSE /\ pc' = [pc EXCEPT ![p] = "withdraw_read"]
            /\ loc' = [loc EXCEPT ![p] = [RequestLicense(key) EXCEPT !.amount = amount]]
            /\ UNCHANGED response
    /\ UNCHANGED tables
    /\ UNCHANGED hq_rest

\* SELECT user_id FROM licenses WHERE id = ?, then SELECT * FROM wallets WHERE
\* user_id = ?, and the balance check.  No handler updates or deletes a row
\* of licenses, so the two reads are taken as one step.
withdraw_read(p) ==
    /\ pc[p] = "withdraw_read"
    /\ LET user_id == licenses[loc[p].license_id].user_id
           w == WalletOf(user_id)
       IN IF InsufficientBalance(w, loc[p].amount)
          THEN Respond(p, Response("InsufficientBalance", 0))
          ELSE /\ pc' = [pc EXCEPT ![p] = "withdraw_write"]
               /\ loc' = [loc EXCEPT ![p].user_id = user_id,
                                     ![p].wallet_id = w,
                                     ![p].balance = wallets[w].balance]
               /\ UNCHANGED response
    /\ UNCHANGED <<tables, ncalls>>
    /\ UNCHANGED hq_rest

\* The UPDATE of the balance from the value read, the INSERT of the
\* transaction, and the commit.
withdraw_write(p) ==
    /\ pc[p] = "withdraw_write"
    /\ wallets' = [w \in Rows(wallets) |->
                     IF wallets[w].user_id = loc[p].user_id
                     THEN WithdrawalUpdate(wallets[w], loc[p].balance, loc[p].amount)
                     ELSE wallets[w]]
    /\ wallet_transactions' =
         Append(wallet_transactions,
                WithdrawalTransaction(loc[p].wallet_id, loc[p].amount))
    /\ Respond(p, Response("success", loc[p].balance - loc[p].amount))
    /\ UNCHANGED <<users, licenses, clients, hq_tables, ncalls>>
    /\ UNCHANGED hq_rest

\* ------------------------------------------------------- credit_wallet
\* The row the handler inserts; status is the column default 'completed'.
CreditTransaction(wallet_id, amount) ==
    [wallet_id |-> wallet_id, type |-> "credit", amount |-> amount,
     status |-> "completed"]

\* Mutant of CreditUpdate: total_earned left as it was.
CreditUpdate_NoTotal(row, balance, total_earned, amount) ==
    [row EXCEPT !.balance = balance + amount]

\* new_balance = wallet['balance'] + amount;
\* new_total = wallet['total_earned'] + amount;
\* UPDATE wallets SET balance = ?, total_earned = ?, ... WHERE id = ?
CreditUpdate(row, balance, total_earned, amount) ==
    [row EXCEPT !.balance = balance + amount,
                !.total_earned = total_earned + amount]

\* POST /api/wallet/credit arrives (the admin key is the HTTP layer's) with a
\* station key and an amount: the 400 for an amount <= 0, then SELECT id FROM
\* users WHERE station_api_key = ? and the 404 for an unknown seller.
credit_wallet(p, station_api_key, amount) ==
    /\ Free(p)
    /\ ncalls < MaxWalletCalls
    /\ ncalls' = ncalls + 1
    /\ IF InvalidAmount(amount)
       THEN Respond(p, Response("InvalidAmount", 0))
       ELSE IF UserOfStationKey(station_api_key) = 0
       THEN Respond(p, Response("SellerNotFound", 0))
       ELSE /\ pc' = [pc EXCEPT ![p] = "credit_read"]
            /\ loc' = [loc EXCEPT ![p] =
                         [NoLoc EXCEPT !.user_id = UserOfStationKey(station_api_key),
                                       !.amount = amount]]
            /\ UNCHANGED response
    /\ UNCHANGED tables
    /\ UNCHANGED hq_rest

\* SELECT * FROM wallets WHERE user_id = ? and the 404 for a missing wallet.
credit_read(p) ==
    /\ pc[p] = "credit_read"
    /\ LET w == WalletOf(loc[p].user_id)
       IN IF w = 0
          THEN Respond(p, Response("WalletNotFound", 0))
          ELSE /\ pc' = [pc EXCEPT ![p] = "credit_write"]
               /\ loc' = [loc EXCEPT ![p].wallet_id = w,
                                     ![p].balance = wallets[w].balance,
                                     ![p].total_earned = wallets[w].total_earned]
               /\ UNCHANGED response
    /\ UNCHANGED <<tables, ncalls>>
    /\ UNCHANGED hq_rest

\* The UPDATE of balance and total_earned from the values read, the INSERT of
\* the transaction, and the commit.
credit_write(p) ==
    /\ pc[p] = "credit_write"
    /\ wallets' = [wallets EXCEPT ![loc[p].wallet_id] =
                     CreditUpdate(@, loc[p].balance, loc[p].total_earned,
                                  loc[p].amount)]
    /\ wallet_transactions' =
         Append(wallet_transactions,
                CreditTransaction(loc[p].wallet_id, loc[p].amount))
    /\ Respond(p, Response("success", loc[p].balance + loc[p].amount))
    /\ UNCHANGED <<users, licenses, clients, hq_tables, ncalls>>
    /\ UNCHANGED hq_rest

\* ------------------------------------------------ update_payout_settings
\* What a request may send as payout_email (none is "") and payout_method.
PayoutEmails == {"", "pay@shop"}
PayoutMethods == {"paypal", "bank"}

\* Mutant of PayoutUpdate: the balance is set to 0 along with the settings.
PayoutUpdate_ClearsBalance(row, payout_email, payout_method) ==
    [row EXCEPT !.payout_email = payout_email,
                !.payout_method = payout_method,
                !.balance = 0]

\* UPDATE wallets SET payout_email = ?, payout_method = ?, updated_at =
\* CURRENT_TIMESTAMP WHERE user_id = ?
PayoutUpdate(row, payout_email, payout_method) ==
    [row EXCEPT !.payout_email = payout_email,
                !.payout_method = payout_method]

\* POST /api/wallet/payout arrives with a license key and the settings; the
\* decorator looks the license up and answers 401 itself or calls the
\* handler.
update_payout_settings(p, key, payout_email, payout_method) ==
    /\ Free(p)
    /\ ncalls < MaxWalletCalls
    /\ ncalls' = ncalls + 1
    /\ IF LicenseCheck(key) # "ok"
       THEN Respond(p, Response(LicenseCheck(key), 0))
       ELSE /\ pc' = [pc EXCEPT ![p] = "payout_write"]
            /\ loc' = [loc EXCEPT ![p] =
                         [RequestLicense(key) EXCEPT
                            !.handler = "update_payout_settings",
                            !.payout_email = payout_email,
                            !.payout_method = payout_method]]
            /\ UNCHANGED response
    /\ UNCHANGED <<tables, hq_rest>>

\* SELECT user_id FROM licenses WHERE id = ?, then the UPDATE of the wallets
\* of that user and the commit; no handler updates or deletes a row of
\* licenses, so the read and the write are taken as one step.
payout_write(p) ==
    /\ pc[p] = "payout_write"
    /\ LET user_id == licenses[loc[p].license_id].user_id
       IN wallets' = [w \in Rows(wallets) |->
                        IF wallets[w].user_id = user_id
                        THEN PayoutUpdate(wallets[w], loc[p].payout_email,
                                          loc[p].payout_method)
                        ELSE wallets[w]]
    /\ Respond(p, Response("success", 0))
    /\ UNCHANGED <<users, licenses, clients, wallet_transactions, hq_tables,
                   hq_rest, ncalls>>

\* ----------------------------------------------------------- get_wallet
\* An account of a database made before the wallets table was: init_db
\* creates the tables that are missing and leaves the rows of users and
\* licenses as they are, without a wallet.
legacy_account(email) ==
    /\ ~EmailTaken(email)
    /\ users' = Append(users, [email |-> email,
                               station_api_key |-> generate_station_api_key])
    /\ licenses' = Append(licenses,
         [license_key |-> generate_license_key, user_id |-> Len(users) + 1,
          expired |-> FALSE, is_active |-> TRUE,
          max_activations |-> DefaultMaxActivations])
    /\ UNCHANGED <<clients, wallets, wallet_transactions, hq_tables, hq_rest,
                   pc, loc, response, ncalls>>

\* Mutant of WalletUserTaken: wallets.user_id without UNIQUE.
WalletUserTaken_NoConstraint(user_id) == FALSE

\* wallets.user_id is UNIQUE NOT NULL: the INSERT raises IntegrityError for
\* a user that has a wallet.
WalletUserTaken(user_id) == \E w \in Rows(wallets) : wallets[w].user_id = user_id

\* GET /api/wallet arrives with a license key; the decorator looks the
\* license up and answers 401 itself or calls the handler.
get_wallet(p, key) ==
    /\ Free(p)
    /\ ncalls' = ncalls + 1
    /\ IF LicenseCheck(key) # "ok"
       THEN Respond(p, Response(LicenseCheck(key), 0))
       ELSE /\ pc' = [pc EXCEPT ![p] = "wallet_read"]
            /\ loc' = [loc EXCEPT ![p] =
                         [RequestLicense(key) EXCEPT !.handler = "get_wallet"]]
            /\ UNCHANGED response
    /\ UNCHANGED <<tables, hq_rest>>

\* SELECT user_id FROM licenses WHERE id = ?, then SELECT * FROM wallets
\* WHERE user_id = ?; no handler updates or deletes a row of licenses, so
\* the two reads are taken as one step.
wallet_read(p) ==
    /\ pc[p] = "wallet_read"
    /\ LET user_id == licenses[loc[p].license_id].user_id
           w == WalletOf(user_id)
       IN /\ pc' = [pc EXCEPT ![p] = IF w = 0 THEN "wallet_insert"
                                     ELSE "wallet_transactions"]
          /\ loc' = [loc EXCEPT ![p].user_id = user_id,
                                ![p].wallet_id = w,
                                ![p].balance = IF w = 0 THEN 0
                                               ELSE wallets[w].balance]
    /\ UNCHANGED <<tables, hq_rest, response, ncalls>>

\* if not wallet: INSERT INTO wallets (user_id) VALUES (?) and the commit;
\* the IntegrityError of the INSERT is not caught, and the request ends in
\* the server's 500.
wallet_insert(p) ==
    /\ pc[p] = "wallet_insert"
    /\ IF WalletUserTaken(loc[p].user_id)
       THEN /\ Respond(p, Response("IntegrityError", 0))
            /\ UNCHANGED wallets
       ELSE /\ wallets' = Append(wallets, NewWallet(loc[p].user_id, ""))
            /\ pc' = [pc EXCEPT ![p] = "wallet_reread"]
            /\ UNCHANGED <<loc, response>>
    /\ UNCHANGED <<users, licenses, clients, wallet_transactions, hq_tables,
                   hq_rest, ncalls>>

\* The SELECT of the wallet again, after the INSERT.
wallet_reread(p) ==
    /\ pc[p] = "wallet_reread"
    /\ LET w == WalletOf(loc[p].user_id)
       IN loc' = [loc EXCEPT ![p].wallet_id = w,
                             ![p].balance = wallets[w].balance]
    /\ pc' = [pc EXCEPT ![p] = "wallet_transactions"]
    /\ UNCHANGED <<tables, hq_rest, response, ncalls>>

\* The SELECT of the wallet's recent transactions, and the response with
\* the balance of the wallet row read.
wallet_transactions_select(p) ==
    /\ pc[p] = "wallet_transactions"
    /\ Respond(p, Response("wallet", loc[p].balance))
    /\ UNCHANGED <<tables, hq_rest, ncalls>>

\* Wallet requests, overlapping.
WalletNext ==
    \/ \E e \in Emails : register(e)
    \/ \E p \in Procs :
         \/ \E key \in Keys, a \in Amounts : request_withdrawal(p, key, a)
         \/ withdraw_read(p)
         \/ withdraw_write(p)
         \/ \E k \in StationKeys, a \in Amounts : credit_wallet(p, k, a)
         \/ credit_read(p)
         \/ credit_write(p)

WalletSpec == Init /\ [][WalletNext]_vars

\* Wallet requests, one at a time.
WalletSeqNext ==
    \/ \E e \in Emails : register(e)
    \/ \E p \in Procs :
         \/ \E key \in Keys, a \in Amounts :
              AllIdle /\ request_withdrawal(p, key, a)
         \/ withdraw_read(p)
         \/ withdraw_write(p)
         \/ \E k \in StationKeys, a \in Amounts :
              AllIdle /\ credit_wallet(p, k, a)
         \/ credit_read(p)
         \/ credit_write(p)

WalletSeqSpec == Init /\ [][WalletSeqNext]_vars

\* ===================================================================
\* HQ server (src/hq_server.py)
\* ===================================================================
\* TIERS: per tier its monthly price in dollars and its commission in percent.
TIERS ==
    [starter      |-> [price |-> 29,  commission |-> 8],
     professional |-> [price |-> 79,  commission |-> 6],
     enterprise   |-> [price |-> 199, commission |-> 4],
     founders     |-> [price |-> 0,   commission |-> 5]]

\* The tier names a caller may send: those of TIERS and one that TIERS lacks.
TierNames == DOMAIN TIERS \cup {"platinum"}

\* TIERS.get(tier, TIERS['starter'])['commission']
get_commission_rate(tier) ==
    IF tier \in DOMAIN TIERS THEN TIERS[tier].commission
    ELSE TIERS["starter"].commission

\* TIERS.get(tier, TIERS['starter'])['price']
get_monthly_fee(tier) ==
    IF tier \in DOMAIN TIERS THEN TIERS[tier].price
    ELSE TIERS["starter"].price

\* The e-mail addresses a registration may carry.
ClientEmails == {"a@shop", "b@shop"}

\* generate_api_key draws 24 hex digits from uuid4: any key, one that a row
\* holds included.  The keys a request may carry are these and 0, which no
\* row holds.
ApiKeys == 1..Cardinality(ClientEmails)

\* The client ids a caller may name: those of the rows, and 0, which is none.
ClientIds == 0..Len(hq_clients)

\* --------------------------------------------------- register_client
\* Mutant of ClientEmailTaken: no UNIQUE on clients.email.
ClientEmailTaken_NoConstraint(email) == FALSE

\* clients.email TEXT UNIQUE
ClientEmailTaken(email) ==
    \E c \in Rows(hq_clients) : hq_clients[c].email = email

\* clients.api_key TEXT UNIQUE
ApiKeyTaken(api_key) ==
    \E c \in Rows(hq_clients) : hq_clients[c].api_key = api_key

\* The row register_client inserts: the tier as it was given, commission and
\* monthly_fee from the getters, status by the column default, last_seen the
\* time of creation; next_billing_date is not named and so NULL.
NewClient(email, api_key, tier) ==
    [email |-> email, api_key |-> api_key, subscription_tier |-> tier,
     commission_rate |-> get_commission_rate(tier),
     monthly_fee |-> get_monthly_fee(tier),
     status |-> "active", last_seen |-> "created_at",
     next_billing_date |-> Null]

\* register_client(name, email, tier): one INSERT and the commit.  The id of
\* the row is taken from uuid4 and is here the number of the row.  An
\* IntegrityError of the INSERT is caught and returned as a result.
register_client(email, tier, api_key) ==
    /\ IF ClientEmailTaken(email) \/ ApiKeyTaken(api_key)
       THEN /\ response' = Response("IntegrityError", 0)
            /\ UNCHANGED hq_clients
       ELSE /\ hq_clients' = Append(hq_clients, NewClient(email, api_key, tier))
            /\ response' = Response("success", Len(hq_clients) + 1)
    /\ UNCHANGED <<portal_tables, sales, pc, loc, ncalls>>
    /\ UNCHANGED hq_rest

\* -------------------------------------------------- change_client_tier
\* Mutant of TierUpdate: monthly_fee left as it was.
TierUpdate_NoFee(row, new_tier) ==
    [row EXCEPT !.subscription_tier = new_tier,
                !.commission_rate = TIERS[new_tier].commission]

\* UPDATE clients SET subscription_tier = ?, commission_rate = ?,
\* monthly_fee = ? WHERE id = ?
TierUpdate(row, new_tier) ==
    [row EXCEPT !.subscription_tier = new_tier,
                !.commission_rate = TIERS[new_tier].commission,
                !.monthly_fee = TIERS[new_tier].price]

\* Mutant of SalesAfterTierChange: the client's sales billed again at the
\* new tier's commission.
SalesAfterTierChange_Rebilled(client_id, new_tier) ==
    [s \in Rows(sales) |->
       IF sales[s].client_id = client_id
       THEN [sales[s] EXCEPT
               !.nexus_fee = (sales[s].sale_value * TIERS[new_tier].commission) \div 100,
               !.client_keeps = sales[s].sale_value
                  - (sales[s].sale_value * TIERS[new_tier].commission) \div 100]
       ELSE sales[s]]

\* Mutant of SalesAfterTierChange: the client's sales deleted.
SalesAfterTierChange_Purged(client_id, new_tier) ==
    SelectSeq(sales, LAMBDA r : r.client_id # client_id)

\* The table sales after change_client_tier: its one statement is an UPDATE
\* of clients.
SalesAfterTierChange(client_id, new_tier) == sales

\* Mutant of ClientsAfterTierChange: a client id that no row has gets a
\* row of the tier.
ClientsAfterTierChange_Upsert(client_id, new_tier) ==
    IF client_id \in Rows(hq_clients)
    THEN [hq_clients EXCEPT ![client_id] = TierUpdate(@, new_tier)]
    ELSE Append(hq_clients, NewClient("", 0, new_tier))

\* The table clients after the UPDATE ... WHERE id = client_id of
\* change_client_tier.
ClientsAfterTierChange(client_id, new_tier) ==
    [c \in Rows(hq_clients) |->
       IF c = client_id THEN TierUpdate(hq_clients[c], new_tier)
       ELSE hq_clients[c]]

\* change_client_tier(client_id, new_tier): the result for a tier that TIERS
\* lacks, else one UPDATE (of no row, when no row has the id) and the commit.
change_client_tier(client_id, new_tier) ==
    /\ IF new_tier \notin DOMAIN TIERS
       THEN /\ response' = Response("InvalidTier", 0)
            /\ UNCHANGED hq_tables
       ELSE /\ hq_clients' = ClientsAfterTierChange(client_id, new_tier)
            /\ sales' = SalesAfterTierChange(client_id, new_tier)
            /\ response' = Response("success", 0)
    /\ UNCHANGED <<portal_tables, pc, loc, ncalls>>
    /\ UNCHANGED hq_rest

\* No function of the server writes clients.status: a client is set inactive
\* by the operator, in nexus_hq.db itself.
\* UPDATE clients SET status = 'inactive' WHERE id = ?
deactivate_client(c) ==
    /\ hq_clients[c].status = "active"
    /\ hq_clients' = [hq_clients EXCEPT ![c].status = "inactive"]
    /\ UNCHANGED <<portal_tables, sales, pc, loc, response, ncalls>>
    /\ UNCHANGED hq_rest

\* ----------------------------------------------- get_client_by_api_key
\* Mutant of ActiveClientOfKey: the status of the client not looked at.
ActiveClientOfKey_AnyStatus(api_key) ==
    LET found == {c \in Rows(hq_clients) : hq_clients[c].api_key = api_key}
    IN IF found = {} THEN 0 ELSE CHOOSE c \in found : \A d \in found : c <= d

\* SELECT * FROM clients WHERE api_key = ? AND status = "active": the id of
\* the row, or 0 when there is none.
ActiveClientOfKey(api_key) ==
    LET found == {c \in Rows(hq_clients) :
                    /\ hq_clients[c].api_key = api_key
                    /\ hq_clients[c].status = "active"}
    IN IF found = {} THEN 0 ELSE CHOOSE c \in found : \A d \in found : c <= d

\* get_client_by_api_key(api_key) is called.
get_client_by_api_key(p, api_key) ==
    /\ Free(p)
    /\ ncalls' = ncalls + 1
    /\ pc' = [pc EXCEPT ![p] = "get_client_select"]
    /\ loc' = [loc EXCEPT ![p] = [NoLoc EXCEPT !.handler = "get_client_by_api_key",
                                               !.api_key = api_key]]
    /\ UNCHANGED <<tables, response>>
    /\ UNCHANGED hq_rest

\* POST /api/phone-home/sale arrives with an API key and a sale_value; the
\* route answers 401 itself for a request without a key, else it calls
\* get_client_by_api_key.
phone_home_sale(p, api_key, sale_value) ==
    /\ Free(p)
    /\ ncalls' = ncalls + 1
    /\ pc' = [pc EXCEPT ![p] = "get_client_select"]
    /\ loc' = [loc EXCEPT ![p] = [NoLoc EXCEPT !.handler = "phone_home_sale",
                                               !.api_key = api_key,
                                               !.sale_value = sale_value]]
    /\ UNCHANGED <<tables, response>>
    /\ UNCHANGED hq_rest

\* The SELECT of get_client_by_api_key on its own connection; None is
\* returned when there is no row, which the route answers with 401.
get_client_select(p) ==
    /\ pc[p] = "get_client_select"
    /\ LET row == ActiveClientOfKey(loc[p].api_key)
       IN IF row = 0
          THEN Respond(p, Response("AuthError", 0))
          ELSE /\ pc' = [pc EXCEPT ![p] = "update_last_seen"]
               /\ loc' = [loc EXCEPT ![p].client_id = row]
               /\ UNCHANGED response
    /\ UNCHANGED <<tables, ncalls>>
    /\ UNCHANGED hq_rest

\* for scan in scans: the loop of phone_home_batch_scans calls record_scan
\* for the scan it is at, and after the last returns 'recorded': len(scans).
BatchLoop(p, l) ==
    IF l.next > Len(l.batch)
    THEN Respond(p, Response("recorded", Len(l.batch)))
    ELSE /\ pc' = [pc EXCEPT ![p] = "record_scan"]
         /\ loc' = [loc EXCEPT ![p] = l]
         /\ UNCHANGED response

\* update_last_seen(row['id']): UPDATE clients SET last_seen = ? WHERE id = ?
\* and the commit, on a connection of its own; of the time the model keeps
\* whether it is that of creation or a later one.  dict(row) is returned: to
\* the caller, or to the route, which goes on to record_sale(client['id'])
\* or to its loop over the scans.
update_last_seen(p) ==
    /\ pc[p] = "update_last_seen"
    /\ hq_clients' = [hq_clients EXCEPT ![loc[p].client_id].last_seen = "later"]
    /\ IF loc[p].handler = "phone_home_sale"
       THEN /\ pc' = [pc EXCEPT ![p] = "record_sale_select"]
            /\ UNCHANGED <<loc, response>>
       ELSE IF loc[p].handler = "phone_home_batch_scans"
       THEN BatchLoop(p, [loc[p] EXCEPT !.next = 1])
       ELSE Respond(p, Response("client", loc[p].client_id))
    /\ UNCHANGED <<portal_tables, sales, ncalls>>
    /\ UNCHANGED hq_rest

\* ---------------------------------------------------------- record_sale
\* round(x, 2) of an amount x that is n hundredths of a cent, in cents: the
\* cent nearest to x.  When x lies halfway between two cents, the double
\* that the server computed for it lies a little to one side or the other
\* (0.25 * (6.0 / 100) rounds to 0.01, 0.50 * (5.0 / 100) to 0.03), and
\* round returns the cent of that side.
round2(n) ==
    IF n % 100 < 50 THEN {n \div 100}
    ELSE IF n % 100 > 50 THEN {n \div 100 + 1}
    ELSE {n \div 100, n \div 100 + 1}

\* nexus_fee = round(sale_value * (commission_rate / 100), 2)
nexus_fee(sale_value, commission_rate) == round2(sale_value * commission_rate)

\* Mutant of client_keeps: the client's share rounded from the sale value,
\* at the share that the starter tier leaves.
client_keeps_StarterShare(sale_value, fee) == round2(sale_value * 92)

\* client_keeps = round(sale_value - nexus_fee, 2)
client_keeps(sale_value, fee) == round2((sale_value - fee) * 100)

\* Mutant of CommissionRateOf: the rate of the starter tier for every client.
CommissionRateOf_Default(client_id) == 8

\* SELECT commission_rate FROM clients WHERE id = ?;
\* commission_rate = row['commission_rate'] if row else 8.0
CommissionRateOf(client_id) ==
    IF client_id \in Rows(hq_clients)
    THEN hq_clients[client_id].commission_rate
    ELSE 8

\* record_sale(client_id, ..., sale_value, ...) is called.
record_sale(p, client_id, sale_value) ==
    /\ Free(p)
    /\ ncalls' = ncalls + 1
    /\ pc' = [pc EXCEPT ![p] = "record_sale_select"]
    /\ loc' = [loc EXCEPT ![p] = [NoLoc EXCEPT !.handler = "record_sale",
                                               !.client_id = client_id,
                                               !.sale_value = sale_value]]
    /\ UNCHANGED <<tables, response>>
    /\ UNCHANGED hq_rest

\* The SELECT of the client's commission_rate.
record_sale_select(p) ==
    /\ pc[p] = "record_sale_select"
    /\ loc' = [loc EXCEPT ![p].commission_rate = CommissionRateOf(loc[p].client_id)]
    /\ pc' = [pc EXCEPT ![p] = "record_sale_insert"]
    /\ UNCHANGED <<tables, response, ncalls>>
    /\ UNCHANGED hq_rest

\* The fee and the client's share from the rate read, INSERT INTO sales, and
\* the commit.
record_sale_insert(p) ==
    /\ pc[p] = "record_sale_insert"
    /\ \E fee \in nexus_fee(loc[p].sale_value, loc[p].commission_rate) :
         \E keeps \in client_keeps(loc[p].sale_value, fee) :
           /\ sales' = Append(sales,
                [client_id |-> loc[p].client_id, sale_value |-> loc[p].sale_value,
                 nexus_fee |-> fee, client_keeps |-> keeps])
           /\ Respond(p, Response("sale", 0))
    /\ UNCHANGED <<portal_tables, hq_clients, ncalls>>
    /\ UNCHANGED hq_rest

\* -------------------------------------------------------------- clock
\* The days at which the clock is looked at: the first day, and for each
\* period that passes the last day before the first day's invoice ends and
\* the day on which it ends.
Instants ==
    {1 + k * PeriodDays : k \in 0..MaxPeriods}
      \cup {k * PeriodDays : k \in 1..MaxPeriods}

\* Time passes, to a later day.
pass_time(t) ==
    /\ t > now
    /\ now' = t
    /\ UNCHANGED <<tables, invoices, scans, pc, loc, response, ncalls>>

\* ------------------------------------------------------ create_invoice
\* The tier names create_invoice may be given: those of a tier change, and
\* '' for none.
TierOverrides == TierNames \cup {""}

\* Mutant of InvoiceClient: the SELECT without its WHERE, which finds the
\* first row of the table.
InvoiceClient_FirstRow(client_id) ==
    IF client_id \in Rows(hq_clients) THEN client_id
    ELSE IF hq_clients = <<>> THEN 0 ELSE 1

\* Mutant of InvoiceClient: a client whose next_billing_date lies ahead is
\* not found.
InvoiceClient_DueOnly(client_id) ==
    IF /\ client_id \in Rows(hq_clients)
       /\ hq_clients[client_id].next_billing_date <= now
    THEN client_id ELSE 0

\* SELECT subscription_tier, monthly_fee FROM clients WHERE id = ?: the id
\* of the row, or 0 when there is none.
InvoiceClient(client_id) ==
    IF client_id \in Rows(hq_clients) THEN client_id ELSE 0

\* The row create_invoice inserts: amount = TIERS.get(tier,
\* TIERS['starter'])['price'], the period of 30 days from now, status
\* 'pending'.
NewInvoice(client_id, tier) ==
    [client_id |-> client_id, tier |-> tier, amount |-> get_monthly_fee(tier),
     period_start |-> now, period_end |-> now + PeriodDays,
     status |-> "pending"]

\* Mutant of BillingUpdate: next_billing_date set to the start of the
\* period.
BillingUpdate_PeriodStart(row, period_end) ==
    [row EXCEPT !.next_billing_date = period_end - PeriodDays]

\* Mutant of BillingUpdate: the client is moved to the professional tier
\* along with its next_billing_date.
BillingUpdate_MovesTier(row, period_end) ==
    [row EXCEPT !.next_billing_date = period_end,
                !.subscription_tier = "professional",
                !.commission_rate = TIERS.professional.commission,
                !.monthly_fee = TIERS.professional.price]

\* Mutant of BillingUpdate: next_billing_date left as it was.
BillingUpdate_NotAdvanced(row, period_end) == row

\* UPDATE clients SET next_billing_date = ? WHERE id = ?
BillingUpdate(row, period_end) == [row EXCEPT !.next_billing_date = period_end]

\* A call of create_invoice returns what l.created says to its caller: to
\* generate_monthly_invoices, whose loop calls it for the next of clients_due
\* or returns invoices_created, or to the caller of create_invoice.
InvoiceReturn(p, l, result) ==
    IF l.handler = "generate_monthly_invoices"
    THEN IF l.due = <<>>
         THEN Respond(p, Response("invoices_created", l.created))
         ELSE /\ pc' = [pc EXCEPT ![p] = "create_invoice_select"]
              /\ loc' = [loc EXCEPT ![p] = [l EXCEPT !.client_id = Head(l.due),
                                                     !.due = Tail(l.due),
                                                     !.tier = ""]]
              /\ UNCHANGED response
    ELSE Respond(p, result)

\* create_invoice(client_id, tier) is called (POST
\* /api/subscriptions/invoices/create passes client_id and tier on).
create_invoice(p, client_id, tier) ==
    /\ Free(p)
    /\ ncalls' = ncalls + 1
    /\ pc' = [pc EXCEPT ![p] = "create_invoice_select"]
    /\ loc' = [loc EXCEPT ![p] = [NoLoc EXCEPT !.handler = "create_invoice",
                                               !.client_id = client_id,
                                               !.tier = tier]]
    /\ UNCHANGED <<tables, hq_rest, response>>

\* The SELECT of the client: None is returned when there is no row, else
\* tier = tier or row['subscription_tier'].
create_invoice_select(p) ==
    /\ pc[p] = "create_invoice_select"
    /\ LET row == InvoiceClient(loc[p].client_id)
       IN IF row = 0
          THEN InvoiceReturn(p, loc[p], Response("None", 0))
          ELSE /\ pc' = [pc EXCEPT ![p] = "create_invoice_write"]
               /\ loc' = [loc EXCEPT ![p].tier =
                            IF loc[p].tier = ""
                            THEN hq_clients[row].subscription_tier
                            ELSE loc[p].tier]
               /\ UNCHANGED response
    /\ UNCHANGED <<tables, hq_rest, ncalls>>

\* INSERT INTO subscription_invoices, UPDATE clients SET next_billing_date,
\* and the commit; the id of the invoice is taken from uuid4 and is here the
\* number of the row.
create_invoice_write(p) ==
    /\ pc[p] = "create_invoice_write"
    /\ invoices' = Append(invoices, NewInvoice(loc[p].client_id, loc[p].tier))
    /\ hq_clients' = [c \in Rows(hq_clients) |->
                        IF c = loc[p].client_id
                        THEN BillingUpdate(hq_clients[c], now + PeriodDays)
                        ELSE hq_clients[c]]
    /\ InvoiceReturn(p, [loc[p] EXCEPT !.created = @ + 1],
                     Response("invoice", Len(invoices) + 1))
    /\ UNCHANGED <<portal_tables, sales, scans, now, ncalls>>

\* ----------------------------------------------- generate_monthly_invoices
RECURSIVE Ascending(_)
\* The ids of a set as a list, in the order of the table.
Ascending(S) ==
    IF S = {} THEN <<>>
    ELSE LET least == CHOOSE x \in S : \A y \in S : x <= y
         IN <<least>> \o Ascending(S \ {least})

\* Mutant of DueClients: clients that pay no fee are billed too.
DueClients_FreeToo(today) ==
    {c \in Rows(hq_clients) :
       /\ hq_clients[c].status = "active"
       /\ \/ hq_clients[c].next_billing_date = Null
          \/ hq_clients[c].next_billing_date <= today}

\* SELECT id FROM clients WHERE status = 'active' AND monthly_fee > 0 AND
\* (next_billing_date IS NULL OR next_billing_date <= ?)
DueClients(today) ==
    {c \in Rows(hq_clients) :
       /\ hq_clients[c].status = "active"
       /\ hq_clients[c].monthly_fee > 0
       /\ \/ hq_clients[c].next_billing_date = Null
          \/ hq_clients[c].next_billing_date <= today}

\* generate_monthly_invoices() is called (POST
\* /api/subscriptions/generate-invoices).
generate_monthly_invoices(p) ==
    /\ Free(p)
    /\ ncalls' = ncalls + 1
    /\ pc' = [pc EXCEPT ![p] = "due_select"]
    /\ loc' = [loc EXCEPT ![p] =
                 [NoLoc EXCEPT !.handler = "generate_monthly_invoices"]]
    /\ UNCHANGED <<tables, hq_rest, response>>

\* today = datetime.now(), the SELECT of the clients that are due, and the
\* connection closed; the loop then calls create_invoice for the first.
due_select(p) ==
    /\ pc[p] = "due_select"
    /\ InvoiceReturn(p, [loc[p] EXCEPT !.today = now,
                                       !.due = Ascending(DueClients(now))],
                     Response("none", 0))
    /\ UNCHANGED <<tables, hq_rest, ncalls>>

\* ---------------------------------------------------- mark_invoice_paid
\* The invoice ids a caller may name: those of the rows, and 0, which is
\* none.
InvoiceIds == 0..Len(invoices)

\* Mutant of PaidUpdate: a paid invoice is set pending again.
PaidUpdate_Toggles(row) ==
    [row EXCEPT !.status = IF @ = "paid" THEN "pending" ELSE "paid"]

\* UPDATE subscription_invoices SET status = 'paid', paid_at = ?,
\* payment_method = ? WHERE id = ?; of the columns set the model keeps the
\* status.
PaidUpdate(row) == [row EXCEPT !.status = "paid"]

\* The table rows after that UPDATE ... WHERE id = invoice_id.
InvoicesAfterPaid(rows, invoice_id) ==
    [i \in Rows(rows) |-> IF i = invoice_id THEN PaidUpdate(rows[i])
                          ELSE rows[i]]

\* mark_invoice_paid(invoice_id): one UPDATE (of no row, when no row has the
\* id) and the commit; True is returned.
mark_invoice_paid(invoice_id) ==
    /\ invoices' = InvoicesAfterPaid(invoices, invoice_id)
    /\ response' = Response("True", 0)
    /\ UNCHANGED <<tables, scans, now, pc, loc, ncalls>>

\* ---------------------------------------------------------- record_scan
\* The card_name of a scan of a batch: scan.get('card_name', ''), which is
\* '' for an entry without the key.
CardNames == {"", "Black Lotus"}

RECURSIVE SeqsUpTo(_, _)
\* The lists of at most n elements of S.
SeqsUpTo(S, n) ==
    IF n = 0 THEN {<<>>}
    ELSE LET shorter == SeqsUpTo(S, n - 1)
         IN shorter \cup {Append(q, x) : q \in shorter, x \in S}

\* data.get('scans', []) of a request.
Batches == SeqsUpTo(CardNames, MaxBatch)

\* POST /api/phone-home/batch-scans arrives with an API key and its scans;
\* the route answers 401 itself for a request without a key, else it calls
\* get_client_by_api_key.
phone_home_batch_scans(p, api_key, batch) ==
    /\ Free(p)
    /\ ncalls' = ncalls + 1
    /\ pc' = [pc EXCEPT ![p] = "get_client_select"]
    /\ loc' = [loc EXCEPT ![p] =
                 [NoLoc EXCEPT !.handler = "phone_home_batch_scans",
                               !.api_key = api_key,
                               !.batch = batch]]
    /\ UNCHANGED <<tables, hq_rest, response>>

\* record_scan(client_id, card_name, ...): the INSERT INTO scans and its
\* commit; of the columns the model keeps client_id and card_name.
record_scan(p) ==
    /\ pc[p] = "record_scan"
    /\ scans' = Append(scans, [client_id |-> loc[p].client_id,
                               card_name |-> loc[p].batch[loc[p].next]])
    /\ BatchLoop(p, [loc[p] EXCEPT !.next = @ + 1])
    /\ UNCHANGED <<tables, invoices, now, ncalls>>

\* ---------------------------------------------- get_subscription_revenue
RECURSIVE FeeSum(_)
\* SUM(monthly_fee) over the clients of S.
FeeSum(S) ==
    IF S = {} THEN 0
    ELSE LET c == CHOOSE x \in S : TRUE
         IN hq_clients[c].monthly_fee + FeeSum(S \ {c})

RECURSIVE AmountSum(_)
\* SUM(amount) over the invoices of S.
AmountSum(S) ==
    IF S = {} THEN 0
    ELSE LET i == CHOOSE x \in S : TRUE
         IN invoices[i].amount + AmountSum(S \ {i})

\* Mutant of ActiveClients: the clients of any status.
ActiveClients_AnyStatus == Rows(hq_clients)

\* FROM clients WHERE status = "active"
ActiveClients == {c \in Rows(hq_clients) : hq_clients[c].status = "active"}

\* FROM subscription_invoices WHERE status = ?
InvoicesOfStatus(status) == {i \in Rows(invoices) : invoices[i].status = status}

\* SELECT subscription_tier, COUNT(*) as count, SUM(monthly_fee) as revenue
\* FROM clients WHERE status = 'active' GROUP BY subscription_tier
TierBreakdown ==
    {[subscription_tier |-> t,
      count |-> Cardinality({c \in ActiveClients :
                               hq_clients[c].subscription_tier = t}),
      revenue |-> FeeSum({c \in ActiveClients :
                            hq_clients[c].subscription_tier = t})] :
       t \in {hq_clients[c].subscription_tier : c \in ActiveClients}}

\* get_subscription_revenue() is called (GET /api/subscriptions/revenue).
get_subscription_revenue(p) ==
    /\ Free(p)
    /\ pc' = [pc EXCEPT ![p] = "revenue_mrr"]
    /\ loc' = [loc EXCEPT ![p] =
                 [NoLoc EXCEPT !.handler = "get_subscription_revenue"]]
    /\ UNCHANGED <<tables, hq_rest, response, ncalls>>

\* SELECT COALESCE(SUM(monthly_fee), 0) as mrr FROM clients WHERE status =
\* "active"
revenue_mrr(p) ==
    /\ pc[p] = "revenue_mrr"
    /\ pc' = [pc EXCEPT ![p] = "revenue_collected"]
    /\ loc' = [loc EXCEPT ![p].mrr = FeeSum(ActiveClients)]
    /\ UNCHANGED <<tables, hq_rest, response, ncalls>>

\* The SELECTs over the paid invoices; the model keeps no paid_at, and of
\* month_collected and total_collected it has total_collected.
revenue_collected(p) ==
    /\ pc[p] = "revenue_collected"
    /\ pc' = [pc EXCEPT ![p] = "revenue_pending"]
    /\ loc' = [loc EXCEPT ![p].total_collected =
                                AmountSum(InvoicesOfStatus("paid"))]
    /\ UNCHANGED <<tables, hq_rest, response, ncalls>>

\* SELECT COUNT(*) as count, COALESCE(SUM(amount), 0) as amount FROM
\* subscription_invoices WHERE status = "pending"
revenue_pending(p) ==
    /\ pc[p] = "revenue_pending"
    /\ pc' = [pc EXCEPT ![p] = "revenue_breakdown"]
    /\ loc' = [loc EXCEPT
                 ![p].pending_invoices = Cardinality(InvoicesOfStatus("pending")),
                 ![p].pending_amount = AmountSum(InvoicesOfStatus("pending"))]
    /\ UNCHANGED <<tables, hq_rest, response, ncalls>>

\* The SELECT of tier_breakdown, and the summary returned; fees and invoice
\* amounts are whole dollars, which round(x, 2) returns as they are.
revenue_breakdown(p) ==
    /\ pc[p] = "revenue_breakdown"
    /\ Respond(p, [kind |-> "revenue", n |-> 0, client_id |-> 0,
                   mrr |-> loc[p].mrr,
                   total_collected |-> loc[p].total_collected,
                   pending_invoices |-> loc[p].pending_invoices,
                   pending_amount |-> loc[p].pending_amount,
                   tier_breakdown |-> TierBreakdown])
    /\ UNCHANGED <<tables, hq_rest, ncalls>>

\* --------------------------------------------------------------- specs
\* The sale values of the commission range, in cents.
SaleRange == 0..MaxSaleValue

\* The commission of one sale: a client of any tier, or none, and the first
\* call of record_sale, with a sale value of the range.
CommissionNext ==
    \/ \E t \in DOMAIN TIERS : AllIdle /\ register_client("a@shop", t, 1)
    \/ \E p \in Procs :
         \/ \E c \in ClientIds, v \in SaleRange :
              AllIdle /\ sales = <<>> /\ record_sale(p, c, v)
         \/ record_sale_select(p)
         \/ record_sale_insert(p)

CommissionSpec == Init /\ [][CommissionNext]_vars

\* The tiers and sale values of the sales runs: the starter and enterprise
\* tiers and a name that TIERS lacks; a sale of 100.00, one of 0.25 and one
\* of -0.25.
ScenarioTiers == {"starter", "enterprise", "platinum"}
SaleValues == {-25, 25, 10000}

\* Sales of one client whose tier changes, one call at a time.
SalesSeqNext ==
    \/ AllIdle /\ register_client("a@shop", "starter", 1)
    \/ \E c \in ClientIds, t \in ScenarioTiers : AllIdle /\ change_client_tier(c, t)
    \/ \E p \in Procs :
         \/ \E c \in ClientIds, v \in SaleValues :
              AllIdle /\ ncalls < MaxSaleCalls /\ record_sale(p, c, v)
         \/ \E k \in {0, 1}, v \in SaleValues :
              AllIdle /\ ncalls < MaxSaleCalls /\ phone_home_sale(p, k, v)
         \/ get_client_select(p)
         \/ update_last_seen(p)
         \/ record_sale_select(p)
         \/ record_sale_insert(p)

SalesSeqSpec == Init /\ [][SalesSeqNext]_vars

\* Registrations and tier changes with any e-mail, tier name and key.
RegistryNext ==
    \/ \E e \in ClientEmails, t \in TierNames, k \in ApiKeys : register_client(e, t, k)
    \/ \E c \in ClientIds, t \in TierNames : change_client_tier(c, t)

RegistrySpec == Init /\ [][RegistryNext]_vars

\* Authentications of clients that the operator sets inactive, calls
\* overlapping.
AuthNext ==
    \/ \E e \in ClientEmails, k \in ApiKeys : register_client(e, "starter", k)
    \/ \E c \in Rows(hq_clients) : deactivate_client(c)
    \/ \E p \in Procs :
         \/ \E k \in {0} \cup ApiKeys :
              ncalls < MaxAuthCalls /\ get_client_by_api_key(p, k)
         \/ get_client_select(p)
         \/ update_last_seen(p)

AuthSpec == Init /\ [][AuthNext]_vars

\* Invoices of one client, created by call and by the due scan and marked
\* paid, one call at a time, while time passes.
BillingSeqNext ==
    \/ AllIdle /\ register_client("a@shop", "starter", 1)
    \/ \E t \in Instants : pass_time(t)
    \/ \E i \in InvoiceIds : AllIdle /\ mark_invoice_paid(i)
    \/ \E p \in Procs :
         \/ \E c \in ClientIds, t \in {"", "enterprise", "platinum"} :
              AllIdle /\ ncalls < MaxBillingCalls /\ create_invoice(p, c, t)
         \/ AllIdle /\ ncalls < MaxBillingCalls /\ generate_monthly_invoices(p)
         \/ due_select(p)
         \/ create_invoice_select(p)
         \/ create_invoice_write(p)

BillingSeqSpec == Init /\ [][BillingSeqNext]_vars

\* The steps of the due scan over clients that pay a fee or none and that
\* the operator sets inactive, while time passes.
DueScanSteps(p) ==
    \/ due_select(p)
    \/ create_invoice_select(p)
    \/ create_invoice_write(p)

DueScanEnvironment ==
    \/ \E e \in ClientEmails, t \in {"starter", "founders"} :
         AllIdle /\ register_client(e, t, IF e = "a@shop" THEN 1 ELSE 2)
    \/ \E c \in Rows(hq_clients) : AllIdle /\ deactivate_client(c)
    \/ \E t \in Instants : pass_time(t)

\* Runs of the due scan, one at a time.
DueScanSeqNext ==
    \/ DueScanEnvironment
    \/ \E p \in Procs :
         \/ AllIdle /\ ncalls < MaxBillingCalls /\ generate_monthly_invoices(p)
         \/ DueScanSteps(p)

DueScanSeqSpec == Init /\ [][DueScanSeqNext]_vars

\* Runs of the due scan, one at a time, where a run that has a step to take
\* takes it: each step is a statement of the handler's thread, which the
\* server runs on.
DueScanLiveSpec ==
    /\ Init
    /\ [][DueScanSeqNext]_vars
    /\ \A p \in Procs : WF_vars(DueScanSteps(p))

\* Runs of the due scan, overlapping.
DueScanNext ==
    \/ DueScanEnvironment
    \/ \E p \in Procs :
         \/ ncalls < MaxBillingCalls /\ generate_monthly_invoices(p)
         \/ DueScanSteps(p)

DueScanSpec == Init /\ [][DueScanNext]_vars

\* The revenue summary read between registrations, tier changes,
\* deactivations, invoices and payments, one request at a time.
RevenueSeqNext ==
    \/ \E e \in ClientEmails :
         AllIdle /\ register_client(e, "starter", IF e = "a@shop" THEN 1 ELSE 2)
    \/ \E c \in Rows(hq_clients), t \in {"enterprise", "platinum"} :
         AllIdle /\ change_client_tier(c, t)
    \/ \E c \in Rows(hq_clients) : AllIdle /\ deactivate_client(c)
    \/ \E i \in InvoiceIds : AllIdle /\ mark_invoice_paid(i)
    \/ \E p \in Procs :
         \/ \E c \in Rows(hq_clients) :
              AllIdle /\ ncalls < MaxBillingCalls /\ create_invoice(p, c, "")
         \/ create_invoice_select(p)
         \/ create_invoice_write(p)
         \/ AllIdle /\ get_subscription_revenue(p)
         \/ revenue_mrr(p)
         \/ revenue_collected(p)
         \/ revenue_pending(p)
         \/ revenue_breakdown(p)

RevenueSeqSpec == Init /\ [][RevenueSeqNext]_vars

\* Batches of scans reported by a registered client and by an unknown key,
\* one request at a time.
ScanSeqNext ==
    \/ AllIdle /\ register_client("a@shop", "starter", 1)
    \/ \E p \in Procs :
         \/ \E k \in {0, 1}, b \in Batches :
              AllIdle /\ ncalls < MaxScanCalls /\ phone_home_batch_scans(p, k, b)
         \/ get_client_select(p)
         \/ update_last_seen(p)
         \/ record_scan(p)

ScanSeqSpec == Init /\ [][ScanSeqNext]_vars

\* Reads of the wallet, overlapping, of accounts that registered and of
\* accounts that have no wallet yet.
WalletAccessNext ==
    \/ \E e \in ClientEmails : register(e)
    \/ \E e \in ClientEmails : legacy_account(e)
    \/ \E p \in Procs :
         \/ \E key \in Keys : ncalls < MaxWalletCalls /\ get_wallet(p, key)
         \/ wallet_read(p)
         \/ wallet_insert(p)
         \/ wallet_reread(p)
         \/ wallet_transactions_select(p)

WalletAccessSpec == Init /\ [][WalletAccessNext]_vars

\* Payout settings updated between credits, for two accounts, requests
\* overlapping.
PayoutNext ==
    \/ \E e \in ClientEmails : register(e)
    \/ \E p \in Procs :
         \/ \E key \in Keys, e \in PayoutEmails, m \in PayoutMethods :
              update_payout_settings(p, key, e, m)
         \/ payout_write(p)
         \/ \E k \in StationKeys : credit_wallet(p, k, 1)
         \/ credit_read(p)
         \/ credit_write(p)

PayoutSpec == Init /\ [][PayoutNext]_vars

\* The operations of the two servers over the logs (sales, scans, wallet
\* transactions), one request at a time.
LogsNext ==
    \/ \E e \in Emails : AllIdle /\ register(e)
    \/ AllIdle /\ register_client("a@shop", "starter", 1)
    \/ \E c \in Rows(hq_clients), t \in {"starter", "enterprise"} :
         AllIdle /\ change_client_tier(c, t)
    \/ \E i \in Rows(invoices) : AllIdle /\ mark_invoice_paid(i)
    \/ \E p \in Procs :
         \/ /\ AllIdle
            /\ ncalls < MaxWalletCalls
            /\ \/ \E k \in StationKeys : credit_wallet(p, k, 1)
               \/ \E key \in Keys :
                    \/ request_withdrawal(p, key, 1)
                    \/ update_payout_settings(p, key, "pay@shop", "bank")
                    \/ validate_license(p, key, 1)
               \/ phone_home_sale(p, 1, 25)
               \/ phone_home_batch_scans(p, 1, <<"Black Lotus">>)
               \/ \E c \in Rows(hq_clients) : create_invoice(p, c, "")
         \/ credit_read(p)
         \/ credit_write(p)
         \/ withdraw_read(p)
         \/ withdraw_write(p)
         \/ payout_write(p)
         \/ validate_count(p)
         \/ validate_existing(p)
         \/ validate_write(p)
         \/ get_client_select(p)
         \/ update_last_seen(p)
         \/ record_sale_select(p)
         \/ record_sale_insert(p)
         \/ record_scan(p)
         \/ create_invoice_select(p)
         \/ create_invoice_write(p)

LogsSpec == Init /\ [][LogsNext]_vars

\* Invoices of the client's tier and of an override, between changes of
\* the client's tier, one request at a time.
InvoiceFrameNext ==
    \/ AllIdle /\ register_client("a@shop", "starter", 1)
    \/ \E c \in Rows(hq_clients), t \in {"starter", "enterprise"} :
         AllIdle /\ change_client_tier(c, t)
    \/ \E p \in Procs :
         \/ \E c \in Rows(hq_clients), t \in {"", "professional"} :
              AllIdle /\ ncalls < MaxBillingCalls /\ create_invoice(p, c, t)
         \/ create_invoice_select(p)
         \/ create_invoice_write(p)

InvoiceFrameSpec == Init /\ [][InvoiceFrameNext]_vars

\* Credits and withdrawals on the wallets of two accounts, one request at a
\* time, and tier changes for the id of the client and for ids that no
\* client has.
FrameNext ==
    \/ \E e \in ClientEmails : AllIdle /\ register(e)
    \/ AllIdle /\ register_client("a@shop", "starter", 1)
    \/ \E c \in 0..(Len(hq_clients) + 1) :
         AllIdle /\ change_client_tier(c, "enterprise")
    \/ \E p \in Procs :
         \/ \E k \in StationKeys : AllIdle /\ credit_wallet(p, k, 1)
         \/ credit_read(p)
         \/ credit_write(p)
         \/ \E key \in Keys : AllIdle /\ request_withdrawal(p, key, 1)
         \/ withdraw_read(p)
         \/ withdraw_write(p)

FrameSpec == Init /\ [][FrameNext]_vars

\* Registrations of accounts, of new and of known e-mails, between
\* validations of their licenses, one validation at a time.
AccountNext ==
    \/ \E e \in ClientEmails : register(e)
    \/ \E p \in Procs :
         \/ \E key \in Keys, m \in CallingMachines :
              AllIdle /\ validate_license(p, key, m)
         \/ validate_count(p)
         \/ validate_existing(p)
         \/ validate_write(p)

AccountSpec == Init /\ [][AccountNext]_vars

\* ===================================================================
\* Properties
\* ===================================================================
\* The transactions of wallet w, in the order they were inserted.
TxOf(w) == SelectSeq(wallet_transactions, LAMBDA t : t.wallet_id = w)

RECURSIVE SumAmounts(_, _)
\* Sum of the amounts of the transactions of wallet w among the first k rows.
SumAmounts(w, k) ==
    IF k = 0 THEN 0
    ELSE SumAmounts(w, k - 1)
         + (IF wallet_transactions[k].wallet_id = w
            THEN wallet_transactions[k].amount ELSE 0)

\* Thread p ends its request in this step, from statement at.
Ends(p, at) == pc[p] = at /\ pc'[p] = "idle"

\* C1: under any interleaving of validations, no license has more activation
\* rows than its max_activations.
C1_ActivationLimitRespected ==
    \A l \in Rows(licenses) : ActivationCount(l) <= licenses[l].max_activations

\* C2: under any interleaving of withdrawals and credits, every wallet's
\* balance is >= 0 in every reachable state.
C2_BalanceNonNegative ==
    \A w \in Rows(wallets) : wallets[w].balance >= 0

\* Two withdrawals were approved against the same balance: the log of the
\* wallet sums below zero, and the balance is not negative.
C2_Witness ==
    /\ AllIdle
    /\ \E w \in Rows(wallets) :
         /\ SumAmounts(w, Len(wallet_transactions)) < 0
         /\ wallets[w].balance >= 0

\* C3: once the requests have completed, each wallet's balance is the sum of
\* the signed amounts of its transactions: no credit or debit is lost.
C3_BalanceMatchesLog ==
    AllIdle => \A w \in Rows(wallets) :
                 wallets[w].balance = SumAmounts(w, Len(wallet_transactions))

\* C4: a successful withdrawal of amount A lowers the balance by exactly A
\* and raises total_withdrawn by exactly A.
C4_WithdrawalMovesTotals ==
    [][\A p \in Procs :
         Ends(p, "withdraw_write") =>
           LET w == loc[p].wallet_id
               A == loc[p].amount
           IN /\ wallets'[w].balance = wallets[w].balance - A
              /\ wallets'[w].total_withdrawn = wallets[w].total_withdrawn + A]_vars

\* C5: a withdrawal of more than the wallet's balance is answered
\* InsufficientBalance and leaves the wallets and the transaction log as
\* they were.
C5_InsufficientLeavesUnchanged ==
    [][\A p \in Procs :
         (/\ pc[p] = "withdraw_read"
          /\ pc'[p] # "withdraw_read"
          /\ LET w == WalletOf(licenses[loc[p].license_id].user_id)
             IN w # 0 /\ loc[p].amount > wallets[w].balance)
         => /\ pc'[p] = "idle"
            /\ response'.kind = "InsufficientBalance"
            /\ wallets' = wallets
            /\ wallet_transactions' = wallet_transactions]_vars

\* A withdrawal of more than a positive balance was turned down.
C5_Witness ==
    /\ response.kind = "InsufficientBalance"
    /\ \E w \in Rows(wallets) : wallets[w].balance > 0

\* What a wallet holds after credit C on an empty wallet.
AfterCredit(w, C) ==
    /\ wallets[w].balance = C
    /\ wallets[w].total_earned = C
    /\ wallets[w].total_withdrawn = 0
    /\ TxOf(w) = <<[wallet_id |-> w, type |-> "credit", amount |-> C,
                    status |-> "completed"]>>

EmptyWallet(w) ==
    /\ wallets[w].balance = 0
    /\ wallets[w].total_earned = 0
    /\ wallets[w].total_withdrawn = 0
    /\ TxOf(w) = <<>>

\* C6: credit C on an empty wallet, then a withdrawal of W <= C: balance is
\* C - W, total_earned C, total_withdrawn W, and the log is the credit of +C
\* (completed) followed by the withdrawal of -W (pending).
C6_CreditThenWithdraw ==
    [][\A p \in Procs, w \in Rows(wallets), A \in 1..MaxAmount :
         (loc[p].wallet_id = w /\ loc[p].amount = A) =>
            /\ (Ends(p, "credit_write") /\ EmptyWallet(w)) => AfterCredit(w, A)'
            /\ \A C \in 1..MaxAmount :
                 (Ends(p, "withdraw_write") /\ AfterCredit(w, C) /\ A <= C) =>
                    /\ wallets'[w].balance = C - A
                    /\ wallets'[w].total_earned = C
                    /\ wallets'[w].total_withdrawn = A
                    /\ TxOf(w)' =
                         <<[wallet_id |-> w, type |-> "credit", amount |-> C,
                            status |-> "completed"],
                           [wallet_id |-> w, type |-> "withdrawal",
                            amount |-> 0 - A, status |-> "pending"]>>]_vars

\* C7: a successful credit of A > 0 raises balance and total_earned by
\* exactly A, leaves total_withdrawn, and appends exactly one transaction:
\* credit, +A, completed.
C7_CreditAddsExactly ==
    [][\A p \in Procs :
         Ends(p, "credit_write") =>
           LET w == loc[p].wallet_id
               A == loc[p].amount
           IN /\ A > 0
              /\ response'.kind = "success"
              /\ wallets'[w].balance = wallets[w].balance + A
              /\ wallets'[w].total_earned = wallets[w].total_earned + A
              /\ wallets'[w].total_withdrawn = wallets[w].total_withdrawn
              /\ wallets'[w].pending_balance = wallets[w].pending_balance
              /\ wallet_transactions' =
                   Append(wallet_transactions,
                          [wallet_id |-> w, type |-> "credit", amount |-> A,
                           status |-> "completed"])]_vars

\* A credit was made on a wallet that held a balance already.
C7_Witness ==
    /\ response.kind = "success"
    /\ Len(wallet_transactions) >= 2
    /\ wallet_transactions[Len(wallet_transactions)].type = "credit"
    /\ \E w \in Rows(wallets) :
         wallets[w].balance > wallet_transactions[Len(wallet_transactions)].amount

\* C8: a credit or (licensed) withdrawal request with amount <= 0 is answered
\* InvalidAmount, a credit of a valid amount for an unknown station key
\* SellerNotFound; the request ends there and no table changes.
C8_InvalidRequestsRejected ==
    [][\A p \in Procs, a \in Amounts :
         /\ \A k \in StationKeys :
              credit_wallet(p, k, a) =>
                /\ a <= 0 =>
                     /\ response'.kind = "InvalidAmount"
                     /\ pc'[p] = "idle" /\ UNCHANGED tables
                /\ (a > 0 /\ UserOfStationKey(k) = 0) =>
                     /\ response'.kind = "SellerNotFound"
                     /\ pc'[p] = "idle" /\ UNCHANGED tables
         /\ \A key \in Keys :
              (request_withdrawal(p, key, a) /\ LicenseCheck(key) = "ok" /\ a <= 0)
                => /\ response'.kind = "InvalidAmount"
                   /\ pc'[p] = "idle" /\ UNCHANGED tables]_vars

\* A request with a bad amount was turned down on a wallet in use.
C8_Witness ==
    /\ response.kind = "InvalidAmount"
    /\ wallet_transactions # <<>>
    /\ \E w \in Rows(wallets) : wallets[w].balance > 0

\* C9: one request at a time, a validation from a machine with no row under
\* a license that has max_activations rows is answered ActivationLimitReached
\* and adds no row; with fewer rows it adds exactly one.
C9_LimitEnforcedSequentially ==
    [][\A p \in Procs :
         LET l == loc[p].license_id
             m == loc[p].machine_id
         IN (Ends(p, "validate_write") /\ ~ClientPairTaken(l, m)) =>
              IF ActivationCount(l) >= licenses[l].max_activations
              THEN /\ response'.kind = "ActivationLimitReached"
                   /\ clients' = clients
              ELSE /\ response'.kind = "valid"
                   /\ clients' = Append(clients, clients'[Len(clients')])
                   /\ clients'[Len(clients')].license_id = l
                   /\ clients'[Len(clients')].machine_id = m]_vars

\* A machine was turned down at a license holding max_activations rows.
C9_Witness ==
    /\ response.kind = "ActivationLimitReached"
    /\ \E l \in Rows(licenses) : ActivationCount(l) = licenses[l].max_activations

\* C10: a validation from a machine that has a row under the license
\* succeeds, at the activation limit too, and leaves the license's count of
\* rows as it was: rows are never removed, the handler finds the row, and it
\* updates that row.
C10_RevalidationIdempotent ==
    [][/\ \A c \in Rows(clients) :
            /\ c \in Rows(clients')
            /\ clients'[c].license_id = clients[c].license_id
            /\ clients'[c].machine_id = clients[c].machine_id
       /\ \A p \in Procs, l \in Rows(licenses), m \in Machines :
            (loc[p].license_id = l /\ loc[p].machine_id = m) =>
               /\ (/\ pc[p] = "validate_existing"
                   /\ pc'[p] # "validate_existing"
                   /\ ClientPairTaken(l, m))
                  => loc'[p].existing # 0
               /\ (/\ pc[p] = "validate_write"
                   /\ pc'[p] # "validate_write"
                   /\ loc[p].existing # 0)
                  => /\ response'.kind = "valid"
                     /\ response'.client_id = loc[p].existing
                     /\ clients[loc[p].existing].machine_id = m
                     /\ clients'[loc[p].existing].last_seen = "later"
                     /\ Len(clients') = Len(clients)
                     /\ ActivationCount(l)' = ActivationCount(l)]_vars

\* A machine holding row 1 was validated again when its license had
\* max_activations rows or more.
C10_Witness ==
    /\ response.kind = "valid"
    /\ response.client_id = 1
    /\ clients[1].last_seen = "later"
    /\ response.n >= DefaultMaxActivations
    /\ Len(clients) >= DefaultMaxActivations

\* C11: a validation with a license key that no license holds, or that only
\* a revoked license holds, is answered InvalidLicense, and one with the key
\* of an active license whose expiry has passed is answered Expired; the
\* request ends there and no row of clients is added or changed.
C11_BadLicenseRejected ==
    [][\A p \in Procs, key \in Keys, m \in Machines :
         validate_license(p, key, m) =>
           LET holders == {l \in Rows(licenses) :
                             licenses[l].license_key = key /\ licenses[l].is_active}
           IN /\ holders = {} =>
                   /\ response'.kind = "InvalidLicense"
                   /\ pc'[p] = "idle" /\ clients' = clients
              /\ (\E l \in holders : licenses[l].expired) =>
                   /\ response'.kind = "Expired"
                   /\ pc'[p] = "idle" /\ clients' = clients]_vars

\* A revoked license that has activations was turned down.
C11_Witness ==
    /\ response.kind = "InvalidLicense"
    /\ clients # <<>>
    /\ \A l \in Rows(licenses) : ~licenses[l].is_active

\* C12: for every sale recorded with a sale value of the range, in cents,
\* the stored fee and the stored client's share add up to the sale value.
C12_FeePlusRetainedIsGross ==
    \A s \in Rows(sales) :
      sales[s].nexus_fee + sales[s].client_keeps = sales[s].sale_value

\* A sale of 0.50 by a founders client was recorded: its fee of 2.5 cents
\* was rounded to 3.
C12_Witness ==
    /\ AllIdle
    /\ \E s \in Rows(sales) :
         /\ sales[s].client_id \in Rows(hq_clients)
         /\ hq_clients[sales[s].client_id].subscription_tier = "founders"
         /\ sales[s].sale_value = 50
         /\ sales[s].nexus_fee = 3
         /\ sales[s].client_keeps = 47

\* C13: a sale is recorded with fee = round(sale value * rate / 100, 2) and
\* client's share = round(sale value - fee, 2), where rate is the
\* commission_rate that the client's row holds when the sale is recorded:
\* one call at a time, a sale of 100.00 by a starter client is recorded as
\* 8.00 / 92.00, and after a change to enterprise as 4.00 / 96.00.
C13_SaleUsesCurrentRate ==
    [][\A p \in Procs, c \in Rows(hq_clients) :
         (Ends(p, "record_sale_insert") /\ loc[p].client_id = c) =>
           LET g == loc[p].sale_value
               rate == hq_clients[c].commission_rate
               new == sales'[Len(sales) + 1]
           IN /\ Len(sales') = Len(sales) + 1
              /\ SubSeq(sales', 1, Len(sales)) = sales
              /\ new.client_id = c /\ new.sale_value = g
              /\ new.nexus_fee \in round2(g * rate)
              /\ new.client_keeps \in round2((g - new.nexus_fee) * 100)
              /\ (g = 10000 /\ hq_clients[c].subscription_tier = "starter")
                   => new.nexus_fee = 800 /\ new.client_keeps = 9200
              /\ (g = 10000 /\ hq_clients[c].subscription_tier = "enterprise")
                   => new.nexus_fee = 400 /\ new.client_keeps = 9600]_vars

\* A starter client's sale of 100.00 was recorded, the client was moved to
\* enterprise, and its next sale of 100.00 was recorded.
C13_Witness ==
    /\ AllIdle
    /\ Len(sales) = 2
    /\ sales[1] = [client_id |-> 1, sale_value |-> 10000,
                   nexus_fee |-> 800, client_keeps |-> 9200]
    /\ sales[2] = [client_id |-> 1, sale_value |-> 10000,
                   nexus_fee |-> 400, client_keeps |-> 9600]
    /\ hq_clients[1].subscription_tier = "enterprise"

\* C14: a tier change, accepted or rejected, leaves every recorded sale as it
\* was: the table sales is the same after it.
C14_TierChangeKeepsSales ==
    [][\A c \in ClientIds, t \in TierNames :
         change_client_tier(c, t) => sales' = sales]_vars

\* A starter client's sale of 100.00 stands at its fee of 8.00 after the
\* client was moved to enterprise.
C14_Witness ==
    /\ response = Response("success", 0)
    /\ sales # <<>>
    /\ sales[1] = [client_id |-> 1, sale_value |-> 10000,
                   nexus_fee |-> 800, client_keeps |-> 9200]
    /\ hq_clients[1].subscription_tier = "enterprise"
    /\ hq_clients[1].commission_rate = 4

\* C15: a call of record_sale with a client id that no row of clients has
\* (and a sale value that is not negative) ends with ClientNotFoundError and
\* adds no row to sales.
C15_UnknownClientRejected ==
    [][\A p \in Procs :
         (/\ pc[p] \in {"record_sale_select", "record_sale_insert"}
          /\ loc[p].client_id \notin Rows(hq_clients)
          /\ loc[p].sale_value >= 0)
         => /\ sales' = sales
            /\ pc'[p] = "idle" => response'.kind = "ClientNotFoundError"]_vars

\* C16: a sale that a client reports with a negative sale value is answered
\* InvalidInput and adds no row to sales.
C16_NegativeSaleRejected ==
    [][\A p \in Procs :
         (/\ pc[p] \in {"record_sale_select", "record_sale_insert"}
          /\ loc[p].client_id \in Rows(hq_clients)
          /\ loc[p].sale_value < 0)
         => /\ sales' = sales
            /\ pc'[p] = "idle" => response'.kind = "InvalidInput"]_vars

\* C17: in every reachable state each client's stored tier is one of TIERS
\* and its commission_rate and monthly_fee are that tier's entries.
C17_RateAndFeeFollowTier ==
    \A c \in Rows(hq_clients) :
      /\ hq_clients[c].subscription_tier \in DOMAIN TIERS
      /\ hq_clients[c].commission_rate =
           TIERS[hq_clients[c].subscription_tier].commission
      /\ hq_clients[c].monthly_fee =
           TIERS[hq_clients[c].subscription_tier].price

\* C18: a tier change to a name that TIERS lacks is answered InvalidTier and
\* leaves every client as it was; a change to a tier of TIERS sets the
\* client's tier, commission_rate and monthly_fee to the new tier's in the
\* one step, and nothing else of any client.
C18_TierChangeAllOrNothing ==
    [][\A c \in ClientIds, t \in TierNames :
         change_client_tier(c, t) =>
           IF t \notin {"starter", "professional", "enterprise", "founders"}
           THEN /\ response'.kind = "InvalidTier"
                /\ hq_clients' = hq_clients
           ELSE /\ response'.kind = "success"
                /\ Len(hq_clients') = Len(hq_clients)
                /\ \A d \in Rows(hq_clients) :
                     IF d = c
                     THEN hq_clients'[d] =
                            [hq_clients[d] EXCEPT
                               !.subscription_tier = t,
                               !.commission_rate = TIERS[t].commission,
                               !.monthly_fee = TIERS[t].price]
                     ELSE hq_clients'[d] = hq_clients[d]]_vars

\* An unknown tier was turned down for clients of which one had been moved
\* to enterprise.
C18_Witness ==
    /\ response.kind = "InvalidTier"
    /\ \E c \in Rows(hq_clients) :
         /\ hq_clients[c].subscription_tier = "enterprise"
         /\ hq_clients[c].commission_rate = 4
         /\ hq_clients[c].monthly_fee = 199

\* No two clients have the same e-mail or the same API key.
ClientsUnique ==
    \A c, d \in Rows(hq_clients) :
      c # d => /\ hq_clients[c].email # hq_clients[d].email
               /\ hq_clients[c].api_key # hq_clients[d].api_key

\* C19: a registration with an e-mail that a client has returns the
\* IntegrityError result, adds no client and leaves the clients as they
\* were; after every step no two clients have the same e-mail or API key.
C19_DuplicateRegistrationRejected ==
    [][/\ ClientsUnique'
       /\ \A e \in ClientEmails, t \in TierNames, k \in ApiKeys :
            (/\ register_client(e, t, k)
             /\ \E c \in Rows(hq_clients) : hq_clients[c].email = e)
            => /\ response'.kind = "IntegrityError"
               /\ hq_clients' = hq_clients]_vars

\* A registration was turned down when two clients were registered.
C19_Witness ==
    /\ response.kind = "IntegrityError"
    /\ Len(hq_clients) = 2

\* C20: get_client_by_api_key finds a client exactly when a row has the key
\* and status active, and then it is that row; when it finds none it
\* returns none and no table has changed; when it returns a client, the
\* one change it has made is that client's last_seen.
C20_AuthenticateFrame ==
    [][\A p \in Procs, k \in {0} \cup ApiKeys :
         loc[p].api_key = k =>
           /\ (pc[p] = "get_client_select" /\ pc'[p] # "get_client_select") =>
                /\ UNCHANGED tables
                /\ IF \E c \in Rows(hq_clients) :
                        hq_clients[c].api_key = k /\ hq_clients[c].status = "active"
                   THEN /\ pc'[p] = "update_last_seen"
                        /\ loc'[p].client_id \in Rows(hq_clients)
                        /\ hq_clients[loc'[p].client_id].api_key = k
                        /\ hq_clients[loc'[p].client_id].status = "active"
                   ELSE /\ pc'[p] = "idle"
                        /\ response'.kind = "AuthError"
           /\ Ends(p, "update_last_seen") =>
                /\ response' = Response("client", loc[p].client_id)
                /\ hq_clients[loc[p].client_id].api_key = k
                /\ hq_clients' =
                     [hq_clients EXCEPT ![loc[p].client_id].last_seen = "later"]
                /\ UNCHANGED <<portal_tables, sales>>]_vars

\* The key of a client that had authenticated and was set inactive was
\* turned down.
C20_Witness ==
    /\ response.kind = "AuthError"
    /\ Len(hq_clients) = 1
    /\ hq_clients[1].status = "inactive"
    /\ hq_clients[1].last_seen = "later"

\* C21: create_invoice for an existing client adds exactly one invoice, of
\* that client, pending, for a tier of TIERS at that tier's price, and in
\* the same step sets the client's next_billing_date to the invoice's
\* period_end.
C21_InvoiceWithBillingDate ==
    [][\A p \in Procs, c \in Rows(hq_clients) :
         (/\ pc[p] = "create_invoice_write"
          /\ pc'[p] # "create_invoice_write"
          /\ loc[p].client_id = c)
         => LET new == invoices'[Len(invoices) + 1]
            IN /\ Len(invoices') = Len(invoices) + 1
               /\ SubSeq(invoices', 1, Len(invoices)) = invoices
               /\ new.client_id = c
               /\ new.status = "pending"
               /\ new.tier \in DOMAIN TIERS
               /\ new.amount = TIERS[new.tier].price
               /\ hq_clients'[c].next_billing_date = new.period_end]_vars

\* C22: create_invoice for a client id that no row of clients has returns
\* None without reaching its INSERT: no invoice is added and no client
\* changes.
C22_UnknownClientNotInvoiced ==
    [][\A p \in Procs :
         /\ (/\ pc[p] = "create_invoice_select"
             /\ pc'[p] # "create_invoice_select"
             /\ loc[p].handler = "create_invoice"
             /\ loc[p].client_id \notin Rows(hq_clients))
            => /\ pc'[p] = "idle"
               /\ response' = Response("None", 0)
               /\ invoices' = invoices
               /\ hq_clients' = hq_clients
         /\ pc'[p] = "create_invoice_write"
            => loc'[p].client_id \in Rows(hq_clients')]_vars

\* An unknown client id was turned down when a client had an invoice.
C22_Witness ==
    /\ response.kind = "None"
    /\ hq_clients # <<>>
    /\ invoices # <<>>

\* C23: create_invoice has no due-date guard: whenever it finishes for an
\* existing client it adds a pending invoice of that client, also when the
\* client's next_billing_date lies ahead of the clock.
C23_NoDueDateGuard ==
    [][/\ \A p \in Procs :
         (/\ pc[p] = "create_invoice_select"
          /\ pc'[p] # "create_invoice_select"
          /\ loc[p].handler = "create_invoice"
          /\ loc[p].client_id \in Rows(hq_clients))
         => /\ pc'[p] = "create_invoice_write"
            /\ loc'[p].client_id = loc[p].client_id
       /\ \A p \in Procs :
            (/\ pc[p] = "create_invoice_write"
             /\ pc'[p] # "create_invoice_write")
            => /\ Len(invoices') = Len(invoices) + 1
               /\ SubSeq(invoices', 1, Len(invoices)) = invoices
               /\ invoices'[Len(invoices) + 1].client_id = loc[p].client_id
               /\ invoices'[Len(invoices) + 1].status = "pending"]_vars

\* Two calls in a row at one instant left two pending invoices of one client,
\* the second made when next_billing_date was already ahead.
C23_Witness ==
    \E i, j \in Rows(invoices) :
        /\ i < j
        /\ invoices[i].client_id = invoices[j].client_id
        /\ invoices[i].period_start = invoices[j].period_start
        /\ invoices[i].status = "pending"
        /\ invoices[j].status = "pending"

\* No client has two invoices whose billing periods overlap.
OneInvoicePerPeriod ==
    \A i, j \in Rows(invoices) :
        (i < j /\ invoices[i].client_id = invoices[j].client_id)
        => invoices[j].period_start >= invoices[i].period_end

\* C24: when runs of generate_monthly_invoices do not overlap, no client is
\* billed twice for one period: a client invoiced by a run is not due again
\* before the period_end of that invoice.
C24_NoDoubleBillingInSequence ==
    /\ OneInvoicePerPeriod
    /\ \A i \in Rows(invoices) :
         (AllIdle /\ now < invoices[i].period_end)
         => invoices[i].client_id \notin DueClients(now)

\* A second run at the instant of the first found nothing due and created
\* no invoice.
C24_Witness ==
    /\ AllIdle
    /\ response = Response("invoices_created", 0)
    /\ \E i \in Rows(invoices) : invoices[i].period_start = now

\* C25: also when runs of generate_monthly_invoices overlap, a client has at
\* most one invoice per billing period.
C25_OneInvoicePerClientPeriod ==
    \A c \in Rows(hq_clients), t \in Instants :
        Cardinality({i \in Rows(invoices) :
                        /\ invoices[i].client_id = c
                        /\ invoices[i].period_start = t}) <= 1

\* The clients a run of the scan holds to invoice: the one it is at and
\* those left of clients_due.
ScanHolds(pcp, l) ==
    IF pcp = "idle" THEN {}
    ELSE {l.client_id} \cup {l.due[k] : k \in DOMAIN l.due}

\* C26: the SELECT of the scan returns exactly the active clients with
\* monthly_fee > 0 whose next_billing_date is null or not after the instant
\* of the scan; the scan invoices no inactive client and no client without
\* a fee.
C26_DueClientsExact ==
    [][\A p \in Procs :
         /\ (pc[p] = "due_select" /\ pc'[p] # "due_select")
            => ScanHolds(pc'[p], loc'[p]) =
                 {c \in Rows(hq_clients) :
                    /\ hq_clients[c].status = "active"
                    /\ hq_clients[c].monthly_fee > 0
                    /\ (hq_clients[c].next_billing_date # Null
                        => hq_clients[c].next_billing_date <= now)}
         /\ (/\ pc[p] = "create_invoice_write"
             /\ pc'[p] # "create_invoice_write"
             /\ loc[p].handler = "generate_monthly_invoices")
            => /\ hq_clients[loc[p].client_id].status = "active"
               /\ hq_clients[loc[p].client_id].monthly_fee > 0]_vars

\* A run has invoiced a client and returned, and the founders client, the
\* inactive client and the client not yet due have no invoice of this
\* instant.
C26_Witness ==
    /\ AllIdle
    /\ response.kind = "invoices_created"
    /\ response.n > 0
    /\ \E c \in Rows(hq_clients) :
         /\ \/ hq_clients[c].monthly_fee = 0
            \/ hq_clients[c].status # "active"
         /\ \A i \in Rows(invoices) :
              invoices[i].client_id = c => invoices[i].period_start # now

\* C27: mark_invoice_paid answers success only for the id of an invoice,
\* which it sets paid: when the last answer is success, some invoice is
\* paid.
C27_UnknownInvoiceNotSuccess ==
    response.kind = "True" => \E i \in Rows(invoices) : invoices[i].status = "paid"

RECURSIVE RevenueSum(_)
\* The sum of the revenue of the groups of a tier_breakdown.
RevenueSum(groups) ==
    IF groups = {} THEN 0
    ELSE LET g == CHOOSE x \in groups : TRUE
         IN g.revenue + RevenueSum(groups \ {g})

RECURSIVE ActiveFees(_)
\* The sum of monthly_fee over the first k rows of clients that are active.
ActiveFees(k) ==
    IF k = 0 THEN 0
    ELSE ActiveFees(k - 1)
         + (IF hq_clients[k].status = "active"
            THEN hq_clients[k].monthly_fee ELSE 0)

\* C28: the mrr that get_subscription_revenue returns is the sum of
\* monthly_fee over the active clients and the sum of the revenue of the
\* groups of tier_breakdown; an active client whose tier was changed to
\* enterprise counts 199 in it.
C28_MrrIsActiveFees ==
    [][\A p \in Procs :
         (pc[p] = "revenue_breakdown" /\ pc'[p] = "idle")
         => /\ response'.mrr = ActiveFees(Len(hq_clients))
            /\ response'.mrr = RevenueSum(response'.tier_breakdown)
            /\ \A c \in Rows(hq_clients) :
                 (/\ hq_clients[c].status = "active"
                  /\ hq_clients[c].subscription_tier = "enterprise")
                 => /\ hq_clients[c].monthly_fee = TIERS.enterprise.price
                    /\ response'.mrr >= TIERS.enterprise.price]_vars

\* The summary after the one client, registered as starter, was changed to
\* enterprise: mrr 199.
C28_Witness ==
    /\ response.kind = "revenue"
    /\ response.mrr = TIERS.enterprise.price
    /\ Len(hq_clients) = 1
    /\ hq_clients[1].subscription_tier = "enterprise"

\* C29: the batch route records the scans of its request that have a
\* card_name and no other, and the count it returns is the number of scans
\* it recorded.
C29_BatchSkipsUnnamed ==
    [][\A p \in Procs :
         (/\ pc[p] = "record_scan"
          /\ (pc'[p] # pc[p] \/ loc'[p] # loc[p]))
         => LET l == loc[p]
                named == {k \in DOMAIN l.batch : l.batch[k] # ""}
            IN /\ scans' = IF l.next \in named
                           THEN Append(scans, [client_id |-> l.client_id,
                                               card_name |-> l.batch[l.next]])
                           ELSE scans
               /\ pc'[p] = "idle"
                  => response' = Response("recorded", Cardinality(named))]_vars

\* C30: under any interleaving of reads of the wallet with each other and
\* with registrations, no account has more than one wallet.
C30_OneWalletPerAccount ==
    \A u \in Rows(users) :
        Cardinality({w \in Rows(wallets) : wallets[w].user_id = u}) <= 1

\* Two first reads of one account overlapped: the INSERT of the second was
\* refused, and the account has its one wallet.
C30_Witness ==
    /\ response.kind = "IntegrityError"
    /\ \E u \in Rows(users) :
         Cardinality({w \in Rows(wallets) : wallets[w].user_id = u}) = 1

\* The licenses of account u.
LicensesOf(u) == {l \in Rows(licenses) : licenses[l].user_id = u}

\* C31: a step that adds a user, a license or a wallet adds the three
\* together: the user, one license of it that is active, allows
\* DefaultMaxActivations activations and has none, and one wallet of it
\* with balance and totals 0.  In every state no two users have one e-mail
\* (a registration of a known e-mail has added nothing) and every account
\* has exactly one license.
C31_RegistrationAllOrNothing ==
    /\ [](\A u, v \in Rows(users) :
            /\ Cardinality(LicensesOf(u)) = 1
            /\ users[u].email = users[v].email => u = v)
    /\ [][(\/ Len(users') # Len(users)
           \/ Len(licenses') # Len(licenses)
           \/ Len(wallets') # Len(wallets))
          => LET u == Len(users) + 1
                 l == Len(licenses) + 1
             IN /\ Len(users') = u
                /\ SubSeq(users', 1, Len(users)) = users
                /\ Len(licenses') = l
                /\ SubSeq(licenses', 1, Len(licenses)) = licenses
                /\ licenses'[l].user_id = u
                /\ licenses'[l].is_active
                /\ ~licenses'[l].expired
                /\ licenses'[l].max_activations = DefaultMaxActivations
                /\ \A c \in Rows(clients') : clients'[c].license_id # l
                /\ Len(wallets') = Len(wallets) + 1
                /\ SubSeq(wallets', 1, Len(wallets)) = wallets
                /\ LET w == wallets'[Len(wallets) + 1]
                   IN /\ w.user_id = u
                      /\ w.balance = 0
                      /\ w.pending_balance = 0
                      /\ w.total_earned = 0
                      /\ w.total_withdrawn = 0]_vars

\* A second account was registered after the first had activated a
\* machine, and each has its one wallet.
C31_Witness ==
    /\ Len(users) = 2
    /\ clients # <<>>
    /\ \A u \in Rows(users) :
         Cardinality({w \in Rows(wallets) : wallets[w].user_id = u}) = 1

\* C33: update_payout_settings changes the payout_email and payout_method of
\* the wallet of the account and nothing more: the other columns of that
\* wallet, the other wallets and the transaction log are as they were.
C33_PayoutSettingsOnly ==
    [][\A p \in Procs :
         (pc[p] = "payout_write" /\ pc'[p] # "payout_write")
         => /\ wallet_transactions' = wallet_transactions
            /\ Len(wallets') = Len(wallets)
            /\ \A w \in Rows(wallets) :
                 IF wallets[w].user_id = licenses[loc[p].license_id].user_id
                 THEN wallets'[w] =
                        [wallets[w] EXCEPT !.payout_email = loc[p].payout_email,
                                           !.payout_method = loc[p].payout_method]
                 ELSE wallets'[w] = wallets[w]]_vars

\* The settings of a wallet were changed and its balance, which a credit had
\* raised, is there.
C33_Witness ==
    \E w \in Rows(wallets) :
        /\ wallets[w].payout_method = "bank"
        /\ wallets[w].payout_email = "pay@shop"
        /\ wallets[w].balance > 0
        /\ wallets[w].total_earned > 0

\* In this step the rows that log has are kept as they are, in their
\* places.
Kept(log, logNext) ==
    /\ Len(logNext) >= Len(log)
    /\ SubSeq(logNext, 1, Len(log)) = log

\* C32: sales, scans and wallet_transactions are append-only: every step of
\* change_client_tier, create_invoice, mark_invoice_paid, credit_wallet,
\* request_withdrawal, update_payout_settings and validate_license, and of
\* the operations that append to them, keeps the rows they have.
C32_LogsAppendOnly ==
    [][/\ Kept(sales, sales')
       /\ Kept(scans, scans')
       /\ Kept(wallet_transactions, wallet_transactions')]_vars

\* Each log has a row, and the client's tier was changed after its sale.
C32_Witness ==
    /\ scans # <<>>
    /\ wallet_transactions # <<>>
    /\ \E r \in Rows(sales) :
         /\ hq_clients[sales[r].client_id].subscription_tier = "enterprise"
         /\ sales[r].nexus_fee
              \in nexus_fee(sales[r].sale_value, TIERS.starter.commission)
         /\ sales[r].nexus_fee
              \notin nexus_fee(sales[r].sale_value, TIERS.enterprise.commission)

\* C34: under any interleaving of withdrawals, the withdrawals approved for
\* a wallet sum to no more than the credits to it: the signed amounts of
\* the wallet's transactions sum to 0 or more.
C34_WithdrawalsWithinCredits ==
    \A w \in Rows(wallets) : SumAmounts(w, Len(wallet_transactions)) >= 0

\* C35: a validation that succeeds returns as activations_used the number
\* of activation rows that the license has right after it, which is no more
\* than max_activations, also when validations of the license overlap.
C35_ActivationsUsedIsRowCount ==
    [][\A p \in Procs, l \in Rows(licenses) :
         (/\ Ends(p, "validate_write")
          /\ loc[p].license_id = l
          /\ response'.kind = "valid")
         => /\ response'.n = Cardinality({c \in Rows(clients') :
                                            clients'[c].license_id = l})
            /\ response'.n <= licenses[l].max_activations]_vars

\* C36: in every state no two activation rows have the same license and
\* machine_id, also when first validations from one new machine overlap.
C36_OneRowPerLicenseMachine ==
    \A c, d \in Rows(clients) :
        (/\ clients[c].license_id = clients[d].license_id
         /\ clients[c].machine_id = clients[d].machine_id)
        => c = d

\* Two first validations from one machine overlapped: the INSERT of the
\* second was refused, and the machine has its one row.
C36_Witness ==
    /\ response.kind = "IntegrityError"
    /\ Len(clients) = 1

\* C37: a run of generate_monthly_invoices comes to its end; a step of its
\* loop leaves fewer clients to invoice, and at the end of a run that no
\* other operation on clients has interleaved no client is due as of the
\* instant of its scan.
C37_DueScanTerminates ==
    /\ \A p \in Procs : (pc[p] = "due_select") ~> (pc[p] = "idle")
    /\ [][\A p \in Procs, t \in Instants :
            (/\ loc[p].handler = "generate_monthly_invoices"
             /\ loc[p].today = t)
            => /\ (pc[p] = "create_invoice_write" /\ pc'[p] # pc[p])
                  => Cardinality(ScanHolds(pc'[p], loc'[p]))
                       < Cardinality(ScanHolds(pc[p], loc[p]))
               /\ (pc[p] # "idle" /\ pc'[p] = "idle")
                  => DueClients(t)' = {}]_vars

\* A run has invoiced two clients and returned.
C37_Witness ==
    /\ AllIdle
    /\ response = Response("invoices_created", 2)
    /\ \A c \in Rows(hq_clients) :
         \E i \in Rows(invoices) : invoices[i].client_id = c

RECURSIVE StatusTotal(_, _, _)
\* The sum of the amounts of the first k of rows that have the status.
StatusTotal(rows, status, k) ==
    IF k = 0 THEN 0
    ELSE StatusTotal(rows, status, k - 1)
         + (IF rows[k].status = status THEN rows[k].amount ELSE 0)

RECURSIVE AmountTotal(_, _)
\* The sum of the amounts of the first k of rows.
AmountTotal(rows, k) ==
    IF k = 0 THEN 0 ELSE AmountTotal(rows, k - 1) + rows[k].amount

\* The invoices of rows that are pending.
PendingOf(rows) == {i \in Rows(rows) : rows[i].status = "pending"}

\* C38: an invoice is created pending, mark_invoice_paid sets it paid, and
\* no step sets a paid invoice pending; mark_invoice_paid a second time on
\* an invoice leaves the statuses, the pending invoices and the total
\* collected as the first left them; in every state the pending amount and
\* the total collected add up to the sum of all invoice amounts, and so do
\* the two in a revenue summary.
C38_InvoiceStatusMonotonic ==
    /\ [](/\ \A i \in Rows(invoices) : invoices[i].status \in {"pending", "paid"}
          /\ StatusTotal(invoices, "pending", Len(invoices))
               + StatusTotal(invoices, "paid", Len(invoices))
             = AmountTotal(invoices, Len(invoices))
          /\ \A i \in Rows(invoices) :
               LET once == InvoicesAfterPaid(invoices, i)
                   twice == InvoicesAfterPaid(once, i)
               IN /\ once[i].status = "paid"
                  /\ twice = once
                  /\ PendingOf(twice) = PendingOf(once)
                  /\ StatusTotal(twice, "paid", Len(twice))
                       = StatusTotal(once, "paid", Len(once)))
    /\ [][/\ \A i \in Rows(invoices) :
               /\ i \in Rows(invoices')
               /\ invoices[i].status = "paid" => invoices'[i].status = "paid"
          /\ \A i \in Rows(invoices') \ Rows(invoices) :
               invoices'[i].status = "pending"
          /\ \A p \in Procs :
               (pc[p] = "revenue_breakdown" /\ pc'[p] = "idle")
               => response'.pending_amount + response'.total_collected
                    = AmountTotal(invoices, Len(invoices))]_vars

\* A summary with one invoice paid and one pending.
C38_Witness ==
    /\ response.kind = "revenue"
    /\ response.total_collected > 0
    /\ response.pending_amount > 0
    /\ response.pending_invoices = 1

\* C39: no step, and so no change_client_tier, changes the tier or the
\* amount of an invoice that exists; create_invoice, with a tier override
\* too, leaves subscription_tier, commission_rate and monthly_fee of every
\* client as they were.
C39_InvoiceKeepsBillingTier ==
    [][/\ \A i \in Rows(invoices) :
            /\ i \in Rows(invoices')
            /\ invoices'[i].tier = invoices[i].tier
            /\ invoices'[i].amount = invoices[i].amount
       /\ (\E p \in Procs : /\ pc[p] = "create_invoice_write"
                            /\ pc'[p] # "create_invoice_write")
          => /\ Len(hq_clients') = Len(hq_clients)
             /\ \A c \in Rows(hq_clients) :
                  /\ hq_clients'[c].subscription_tier
                       = hq_clients[c].subscription_tier
                  /\ hq_clients'[c].commission_rate
                       = hq_clients[c].commission_rate
                  /\ hq_clients'[c].monthly_fee = hq_clients[c].monthly_fee]_vars

\* The client, now of the enterprise tier, has an invoice of the starter
\* tier at the starter price from before the change, and one of the
\* professional tier from an override.
C39_Witness ==
    /\ hq_clients # <<>>
    /\ hq_clients[1].subscription_tier = "enterprise"
    /\ hq_clients[1].monthly_fee = TIERS.enterprise.price
    /\ \E i, j \in Rows(invoices) :
         /\ invoices[i].tier = "starter"
         /\ invoices[i].amount = TIERS.starter.price
         /\ invoices[j].tier = "professional"
         /\ invoices[j].amount = TIERS.professional.price

\* C40: a credit and a withdrawal leave every wallet but the one they
\* address, and its transactions, as they were; change_client_tier for an
\* id that no client has leaves the table clients as it is, with no row
\* changed and none added.
C40_OnlyAddressedWalletChanges ==
    /\ [](\A c \in {0, Len(hq_clients) + 1}, t \in DOMAIN TIERS :
            ClientsAfterTierChange(c, t) = hq_clients)
    /\ [][\A p \in Procs, w \in Rows(wallets) :
            (/\ pc[p] \in {"credit_write", "withdraw_write"}
             /\ pc'[p] # pc[p]
             /\ w # loc[p].wallet_id)
            => /\ wallets'[w] = wallets[w]
               /\ TxOf(w)' = TxOf(w)]_vars

\* One wallet was credited and the other is as registration made it; the
\* tier change for an unknown id was answered last, and the client is of
\* its starter tier.
C40_Witness ==
    /\ AllIdle
    /\ \E v, w \in Rows(wallets) :
         /\ wallets[v].balance > 0
         /\ TxOf(v) # <<>>
         /\ wallets[w].balance = 0
         /\ wallets[w].total_earned = 0
         /\ TxOf(w) = <<>>
    /\ \A k \in Rows(wallet_transactions) : wallet_transactions[k].amount > 0
    /\ response = Response("success", 0)
    /\ hq_clients # <<>>
    /\ hq_clients[1].subscription_tier = "starter"

====
